---- MODULE Spec2Model ----
(***************************************************************************)
(* Narration (read-aloud) state machine of the AskLumen chat page,         *)
(* src/src/pages/Questions.tsx (first revision of the component, lines     *)
(* 1-1259), together with the text-to-speech edge function                 *)
(* src/supabase/functions/text-to-speech/index.ts that startSpeech calls.  *)
(*                                                                         *)
(* React semantics that the model keeps:                                   *)
(*  - a handler invoked by the UI runs with the state of the latest        *)
(*    render; a callback registered earlier (audio.onended, utterance      *)
(*    onend, the continuation of startSpeech after its await) runs with    *)
(*    the currentAudio captured by the render it was created in ("cap");   *)
(*  - setState(value) overwrites, setState(prev => ...) updates the        *)
(*    current value;                                                       *)
(*  - a disabled button does not invoke its handler.                       *)
(* Strings are sequences of one-character strings.                         *)
(***************************************************************************)
EXTENDS Integers, Sequences, FiniteSets, TLC

\* ------------------------------------------------------------------ bounds
MaxAudio   == 1   \* audio elements that can be playing at the same time
MaxUtt     == 1   \* utterances whose callbacks or timers are still alive
MaxPending == 1   \* startSpeech calls awaiting generateAudio
MaxOverrun == 7   \* characters by which an audio file outlasts its estimated length
MaxStale   == 1   \* further elements of each kind where narrations overlap
MaxContent == 60  \* characters of the longest error message that is cleaned for speech

\* ------------------------------------------------------- program constants
CharsPerSecond == 15    \* Questions.tsx:722, 821
TickMs         == 500   \* Questions.tsx:752, 825

\* --------------------------------------------------------------- strings
WS == {" ", "\n"}

\* the backtick character
BackTick == "BT"

RECURSIVE LTrim(_)
LTrim(s) == IF s # <<>> /\ Head(s) \in WS THEN LTrim(Tail(s)) ELSE s

RECURSIVE RTrim(_)
RTrim(s) == IF s # <<>> /\ s[Len(s)] \in WS THEN RTrim(SubSeq(s, 1, Len(s) - 1)) ELSE s

\* String.prototype.trim
Trim(s) == RTrim(LTrim(s))

\* String.prototype.includes
Includes(s, sub) ==
  \E i \in 1..(Len(s) - Len(sub) + 1) : SubSeq(s, i, i + Len(sub) - 1) = sub

\* String.prototype.substring(start) for 0 <= start
Substring(s, start) == SubSeq(s, start + 1, Len(s))

\* end of the maximal run of characters other than c that starts at index i
\* (i - 1 when the run is empty)
RECURSIVE RunEnd(_, _, _)
RunEnd(s, i, c) == IF i <= Len(s) /\ s[i] # c THEN RunEnd(s, i + 1, c) ELSE i - 1

\* s has d copies of c at index i
Delim(s, i, c, d) == i + d - 1 <= Len(s) /\ \A k \in i..(i + d - 1) : s[k] = c

\* s.replace(/D([^c]+)D/g, '$1') where D is c repeated d times
RECURSIVE StripPair(_, _, _, _)
StripPair(s, i, c, d) ==
  IF i > Len(s) THEN <<>>
  ELSE LET e == RunEnd(s, i + d, c) IN
       IF Delim(s, i, c, d) /\ e >= i + d /\ Delim(s, e + 1, c, d)
       THEN SubSeq(s, i + d, e) \o StripPair(s, e + d + 1, c, d)
       ELSE <<s[i]>> \o StripPair(s, i + 1, c, d)

\* s.replace(/\s+/g, ' ')
RECURSIVE CollapseWS(_, _)
CollapseWS(s, i) ==
  IF i > Len(s) THEN <<>>
  ELSE IF s[i] \in WS
       THEN IF i > 1 /\ s[i - 1] \in WS THEN CollapseWS(s, i + 1)
            ELSE <<" ">> \o CollapseWS(s, i + 1)
       ELSE <<s[i]>> \o CollapseWS(s, i + 1)

\* cleanTextForSpeech.  The replacements for __x__, _x_, # headers, [t](u)
\* links, code fences and line-leading bullets are the identity on every
\* content of the model (none contains '_', '#', '[', a fence or a bullet).
cleanTextForSpeech(text) ==
  IF text = <<>> THEN <<>>
  ELSE LET bold   == StripPair(text, 1, "*", 2)
           italic == StripPair(bold, 1, "*", 1)
           code   == StripPair(italic, 1, BackTick, 1)
       IN  Trim(CollapseWS(code, 1))

\* ---------------------------------------------------------- error markers
MarkError == <<"E", "r", "r", "o", "r", ":">>
MarkRate  == <<"r", "a", "t", "e", " ", "l", "i", "m", "i", "t">>
MarkQuota == <<"q", "u", "o", "t", "a", " ", "e", "x", "c", "e", "e", "d", "e", "d">>
MarkKey   == <<"A", "P", "I", " ", "k", "e", "y">>

\* a test that lets "API key" through
SpeechErrorMarker_NoKey(content) ==
  \/ Includes(content, MarkError)
  \/ Includes(content, MarkRate)
  \/ Includes(content, MarkQuota)

\* the test of startSpeech, Questions.tsx:596
SpeechErrorMarker(content) ==
  \/ Includes(content, MarkError)
  \/ Includes(content, MarkRate)
  \/ Includes(content, MarkQuota)
  \/ Includes(content, MarkKey)

\* the test of handleGenerateImage, Questions.tsx:510
ImageErrorMarker(aiResponse) ==
  \/ Includes(aiResponse, MarkError)
  \/ Includes(aiResponse, MarkRate)
  \/ Includes(aiResponse, MarkQuota)

\* ------------------------------------------------------ message contents
\* "**Hi** there"
Good1 == <<"*", "*", "H", "i", "*", "*", " ", "t", "h", "e", "r", "e">>
\* "*ok*  <backtick>go<backtick> now\n"
Good2 == <<"*", "o", "k", "*", " ", " ", BackTick, "g", "o", BackTick, " ", "n", "o", "w", "\n">>
\* "rate limit exceeded"
BadRate == MarkRate \o <<" ", "e", "x", "c", "e", "e", "d", "e", "d">>
\* "Error: x"
BadError == MarkError \o <<" ", "x">>
\* "no quota exceeded"
BadQuota == <<"n", "o", " ">> \o MarkQuota
\* "bad API key"
BadKey == <<"b", "a", "d", " ">> \o MarkKey
\* "  " and ""
BadBlank == <<" ", " ">>
BadEmpty == <<>>

BadContents == {BadRate, BadError, BadQuota, BadKey, BadBlank, BadEmpty}


\* ------------------------------------------------------------------ state
Msgs    == {1, 2}          \* ids of the assistant messages of the list
NoMsg   == 0               \* speechState.messageId = null
NoAudio == 0               \* currentAudio = null
DeadAudio == 0 - 1         \* an audio element that is paused or has ended: it
                           \* fires no further event and its timer clears itself
AudioIds == 1..(MaxAudio + MaxStale)    \* the audio elements that are playing
UttIds   == 1..(MaxUtt + MaxStale)
PendIds  == 1..(MaxPending + MaxStale)

NoUrl     == "none"                   \* audioUrl '' / undefined
DataUrl   == "data:audio/mp3"         \* Questions.tsx:896
WebSpeech == "web-speech-synthesis"   \* Questions.tsx:957

VARIABLES
  content,            \* Message.content, immutable (Questions.tsx:13-23)
  messages,           \* per message: isPlaying, audioUrl (Questions.tsx:84)
  speechState,        \* Questions.tsx:95-107
  currentAudio,       \* Questions.tsx:89
  isMuted,            \* Questions.tsx:88
  webSpeechSupported, \* Questions.tsx:92, 216: 'speechSynthesis' in window
  audios,             \* the HTMLAudioElements created at Questions.tsx:718
  utterances,         \* the utterances handed to window.speechSynthesis
  pending,            \* startSpeech calls suspended at await generateAudio
  pool,               \* how many elements of each kind the behaviour may hold at once
  user,               \* useAuth().user is set (Questions.tsx:80-83)
  imageGenerating,    \* Questions.tsx:91
  generatedImages,    \* the messages with a generated image (Questions.tsx:90)
  toast,              \* the toasts raised by the last step
  ttsLog,             \* provider attempts of the request resolved by the last step
  op                  \* the last step: the handler or callback, and its message

\* ------------------------------------------------ conversation turns: data
VARIABLES
  messageList,            \* messages as a list: who appended what (Questions.tsx:84)
  inputText,              \* Questions.tsx:85
  selectedFiles,          \* Questions.tsx:94
  isProcessing,           \* Questions.tsx:87
  currentConversationId,  \* Questions.tsx:93
  conversationPending,    \* createNewConversation awaits its insert (Questions.tsx:127-134)
  turns,                  \* the sendQuestion calls and where each one is suspended
  backend,                \* the chat-completion handler that is deployed
  turnLimit,              \* the questions asked in this behaviour
  aiRequest,              \* the user content the handler builds for the request in flight
  toastText               \* the text of the toast raised by the last step of a turn

turnVars == <<messageList, inputText, selectedFiles, isProcessing, currentConversationId,
              conversationPending, turns, backend, turnLimit, aiRequest, toastText>>

\* ------------------------------------------------ speech-to-text function
VARIABLES
  sttPc,        \* where the serve handler of speech-to-text is
  attempts,     \* speech-to-text/index.ts:109
  polls,        \* status polls performed (fetches at :113)
  transcript,   \* transcript.status of the last poll (:125)
  sttResponse   \* the response of the handler

sttVars == <<sttPc, attempts, polls, transcript, sttResponse>>

\* ------------------------------------------------------ voice input: data
VARIABLES
  voice         \* isRecording (Questions.tsx:86) and where stopRecording is suspended

\* no recording, no transcription
NoVoice == [isRecording |-> FALSE, phase |-> "idle"]

vars == <<content, messages, speechState, currentAudio, isMuted, webSpeechSupported,
          audios, utterances, pending, pool, user, imageGenerating, generatedImages,
          toast, ttsLog, op, turnVars, sttVars, voice>>

speechVars == <<content, messages, speechState, currentAudio, isMuted, webSpeechSupported,
                audios, utterances, pending, pool, imageGenerating, generatedImages,
                toast, ttsLog>>

maxAttempts == 30   \* speech-to-text/index.ts:110

MaxTurns == 2   \* sendQuestion calls of one behaviour
MaxFiles == 1   \* files selected for one question

TurnIds == 1..MaxTurns
NoConversation == 0      \* currentConversationId = null
TheConversation == 1     \* the id of the inserted conversation row

\* s.startsWith(prefix)
StartsWith(s, prefix) == Len(s) >= Len(prefix) /\ SubSeq(s, 1, Len(prefix)) = prefix

\* 'image/'
ImagePrefix ==
  <<"i", "m", "a", "g", "e", "/">>

\* 'image/png'
TypePng ==
  <<"i", "m", "a", "g", "e", "/", "p", "n", "g">>

\* 'application/pdf'
TypePdf ==
  <<"a", "p", "p", "l", "i", "c", "a", "t", "i", "o", "n", "/", "p", "d", "f">>


\* 'photo.png'
NamePng ==
  <<"p", "h", "o", "t", "o", ".", "p", "n", "g">>

\* 'notes.pdf'
NamePdf ==
  <<"n", "o", "t", "e", "s", ".", "p", "d", "f">>

\* the File objects the user can select
FileImg == [name |-> NamePng, type |-> TypePng]
FilePdf == [name |-> NamePdf, type |-> TypePdf]
Files   == {FileImg, FilePdf}

\* 'hi'
TextHi ==
  <<"h", "i">>

\* ' '
TextBlank ==
  <<" ">>


\* values of the input box: empty, white space only, a question
InputTexts == {<<>>, TextBlank, TextHi}

\* ---- the substrings the catch block of sendQuestion looks for (:403-414)

\* 'Rate limit reached'
SubRateReached ==
  <<"R", "a", "t", "e", " ", "l", "i", "m", "i", "t", " ", "r", "e", "a", "c", "h", "e", "d">>

\* 'rate limit exceeded'
SubRateExceeded ==
  <<"r", "a", "t", "e", " ", "l", "i", "m", "i", "t", " ", "e", "x", "c", "e", "e", "d", "e",
    "d">>

\* 'insufficient_quota'
SubQuota ==
  <<"i", "n", "s", "u", "f", "f", "i", "c", "i", "e", "n", "t", "_", "q", "u", "o", "t", "a">>

\* 'invalid_api_key'
SubInvalidKey ==
  <<"i", "n", "v", "a", "l", "i", "d", "_", "a", "p", "i", "_", "k", "e", "y">>

\* 'Edge Function returned a non-2xx status code'
SubNon2xx ==
  <<"E", "d", "g", "e", " ", "F", "u", "n", "c", "t", "i", "o", "n", " ", "r", "e", "t", "u",
    "r", "n", "e", "d", " ", "a", " ", "n", "o", "n", "-", "2", "x", "x", " ", "s", "t", "a",
    "t", "u", "s", " ", "c", "o", "d", "e">>


\* ---- texts of supabase.functions.invoke errors

\* 'Failed to send a request to the Edge Function'
MsgFetchFailed ==
  <<"F", "a", "i", "l", "e", "d", " ", "t", "o", " ", "s", "e", "n", "d", " ", "a", " ", "r",
    "e", "q", "u", "e", "s", "t", " ", "t", "o", " ", "t", "h", "e", " ", "E", "d", "g", "e",
    " ", "F", "u", "n", "c", "t", "i", "o", "n">>


\* ---- error texts an AI provider can answer with

\* 'Rate limit reached for requests'
UpRate ==
  <<"R", "a", "t", "e", " ", "l", "i", "m", "i", "t", " ", "r", "e", "a", "c", "h", "e", "d",
    " ", "f", "o", "r", " ", "r", "e", "q", "u", "e", "s", "t", "s">>

\* 'You exceeded your quota: insufficient_quota'
UpQuota ==
  <<"Y", "o", "u", " ", "e", "x", "c", "e", "e", "d", "e", "d", " ", "y", "o", "u", "r", " ",
    "q", "u", "o", "t", "a", ":", " ", "i", "n", "s", "u", "f", "f", "i", "c", "i", "e", "n",
    "t", "_", "q", "u", "o", "t", "a">>

\* 'Incorrect API key: invalid_api_key'
UpKey ==
  <<"I", "n", "c", "o", "r", "r", "e", "c", "t", " ", "A", "P", "I", " ", "k", "e", "y", ":",
    " ", "i", "n", "v", "a", "l", "i", "d", "_", "a", "p", "i", "_", "k", "e", "y">>

\* 'rate limit exceeded (insufficient_quota)'
UpRateQuota ==
  <<"r", "a", "t", "e", " ", "l", "i", "m", "i", "t", " ", "e", "x", "c", "e", "e", "d", "e",
    "d", " ", "(", "i", "n", "s", "u", "f", "f", "i", "c", "i", "e", "n", "t", "_", "q", "u",
    "o", "t", "a", ")">>

\* 'insufficient_quota after invalid_api_key'
UpQuotaKey ==
  <<"i", "n", "s", "u", "f", "f", "i", "c", "i", "e", "n", "t", "_", "q", "u", "o", "t", "a",
    " ", "a", "f", "t", "e", "r", " ", "i", "n", "v", "a", "l", "i", "d", "_", "a", "p", "i",
    "_", "k", "e", "y">>

\* 'The model is overloaded'
UpOther ==
  <<"T", "h", "e", " ", "m", "o", "d", "e", "l", " ", "i", "s", " ", "o", "v", "e", "r", "l",
    "o", "a", "d", "e", "d">>


UpstreamErrors == {UpRate, UpQuota, UpKey, UpRateQuota, UpQuotaKey, UpOther}

\* the retry-after header of a 429 answer

\* '37'
RetryN ==
  <<"3", "7">>


\* ---- texts built by sendQuestion (:345-368)

\* 'Function invoke error: '
PreInvoke ==
  <<"F", "u", "n", "c", "t", "i", "o", "n", " ", "i", "n", "v", "o", "k", "e", " ", "e", "r",
    "r", "o", "r", ":", " ">>

\* 'Edge function error: '
PreEdge ==
  <<"E", "d", "g", "e", " ", "f", "u", "n", "c", "t", "i", "o", "n", " ", "e", "r", "r", "o",
    "r", ":", " ">>

\* ' - '
SepDetails ==
  <<" ", "-", " ">>

\* 'No response data received from edge function'
MsgNoData ==
  <<"N", "o", " ", "r", "e", "s", "p", "o", "n", "s", "e", " ", "d", "a", "t", "a", " ", "r",
    "e", "c", "e", "i", "v", "e", "d", " ", "f", "r", "o", "m", " ", "e", "d", "g", "e", " ",
    "f", "u", "n", "c", "t", "i", "o", "n">>

\* 'OpenAI rate limit exceeded.'
MsgRateHead ==
  <<"O", "p", "e", "n", "A", "I", " ", "r", "a", "t", "e", " ", "l", "i", "m", "i", "t", " ",
    "e", "x", "c", "e", "e", "d", "e", "d", ".">>

\* ' Try again in '
MsgRetryIn ==
  <<" ", "T", "r", "y", " ", "a", "g", "a", "i", "n", " ", "i", "n", " ">>

\* ' seconds.'
MsgSeconds ==
  <<" ", "s", "e", "c", "o", "n", "d", "s", ".">>

\* ' Please try again in a few minutes.'
MsgFewMinutes ==
  <<" ", "P", "l", "e", "a", "s", "e", " ", "t", "r", "y", " ", "a", "g", "a", "i", "n", " ",
    "i", "n", " ", "a", " ", "f", "e", "w", " ", "m", "i", "n", "u", "t", "e", "s", ".">>

\* ' Consider checking your OpenAI billing plan for higher limits.'
MsgBilling ==
  <<" ", "C", "o", "n", "s", "i", "d", "e", "r", " ", "c", "h", "e", "c", "k", "i", "n", "g",
    " ", "y", "o", "u", "r", " ", "O", "p", "e", "n", "A", "I", " ", "b", "i", "l", "l", "i",
    "n", "g", " ", "p", "l", "a", "n", " ", "f", "o", "r", " ", "h", "i", "g", "h", "e", "r",
    " ", "l", "i", "m", "i", "t", "s", ".">>


\* ---- the assistant texts and toasts of the catch block (:399-420); of the
\* four long texts the heading line is kept, without its leading emoji

\* 'Sorry, I encountered an error. Please try again.'
ContentGeneric ==
  <<"S", "o", "r", "r", "y", ",", " ", "I", " ", "e", "n", "c", "o", "u", "n", "t", "e", "r",
    "e", "d", " ", "a", "n", " ", "e", "r", "r", "o", "r", ".", " ", "P", "l", "e", "a", "s",
    "e", " ", "t", "r", "y", " ", "a", "g", "a", "i", "n", ".">>

\* 'Failed to get response. Please try again.'
ToastGeneric ==
  <<"F", "a", "i", "l", "e", "d", " ", "t", "o", " ", "g", "e", "t", " ", "r", "e", "s", "p",
    "o", "n", "s", "e", ".", " ", "P", "l", "e", "a", "s", "e", " ", "t", "r", "y", " ", "a",
    "g", "a", "i", "n", ".">>

\* '**Gemini Rate Limit Reached**'
ContentRate ==
  <<"*", "*", "G", "e", "m", "i", "n", "i", " ", "R", "a", "t", "e", " ", "L", "i", "m", "i",
    "t", " ", "R", "e", "a", "c", "h", "e", "d", "*", "*">>

\* 'Gemini rate limit reached. Please try again in a few minutes.'
ToastRate ==
  <<"G", "e", "m", "i", "n", "i", " ", "r", "a", "t", "e", " ", "l", "i", "m", "i", "t", " ",
    "r", "e", "a", "c", "h", "e", "d", ".", " ", "P", "l", "e", "a", "s", "e", " ", "t", "r",
    "y", " ", "a", "g", "a", "i", "n", " ", "i", "n", " ", "a", " ", "f", "e", "w", " ", "m",
    "i", "n", "u", "t", "e", "s", ".">>

\* '**Gemini Quota Exceeded**'
ContentQuota ==
  <<"*", "*", "G", "e", "m", "i", "n", "i", " ", "Q", "u", "o", "t", "a", " ", "E", "x", "c",
    "e", "e", "d", "e", "d", "*", "*">>

\* 'Gemini quota exceeded. Check your Google Cloud Console'
ToastQuota ==
  <<"G", "e", "m", "i", "n", "i", " ", "q", "u", "o", "t", "a", " ", "e", "x", "c", "e", "e",
    "d", "e", "d", ".", " ", "C", "h", "e", "c", "k", " ", "y", "o", "u", "r", " ", "G", "o",
    "o", "g", "l", "e", " ", "C", "l", "o", "u", "d", " ", "C", "o", "n", "s", "o", "l", "e">>

\* '**Invalid API Key**'
ContentKey ==
  <<"*", "*", "I", "n", "v", "a", "l", "i", "d", " ", "A", "P", "I", " ", "K", "e", "y", "*",
    "*">>

\* 'Invalid Gemini API key. Please contact support.'
ToastKey ==
  <<"I", "n", "v", "a", "l", "i", "d", " ", "G", "e", "m", "i", "n", "i", " ", "A", "P", "I",
    " ", "k", "e", "y", ".", " ", "P", "l", "e", "a", "s", "e", " ", "c", "o", "n", "t", "a",
    "c", "t", " ", "s", "u", "p", "p", "o", "r", "t", ".">>

\* '**Service Temporarily Unavailable**'
ContentNon2xx ==
  <<"*", "*", "S", "e", "r", "v", "i", "c", "e", " ", "T", "e", "m", "p", "o", "r", "a", "r",
    "i", "l", "y", " ", "U", "n", "a", "v", "a", "i", "l", "a", "b", "l", "e", "*", "*">>

\* 'Service temporarily unavailable. Please try again in a few minutes.'
ToastNon2xx ==
  <<"S", "e", "r", "v", "i", "c", "e", " ", "t", "e", "m", "p", "o", "r", "a", "r", "i", "l",
    "y", " ", "u", "n", "a", "v", "a", "i", "l", "a", "b", "l", "e", ".", " ", "P", "l", "e",
    "a", "s", "e", " ", "t", "r", "y", " ", "a", "g", "a", "i", "n", " ", "i", "n", " ", "a",
    " ", "f", "e", "w", " ", "m", "i", "n", "u", "t", "e", "s", ".">>

\* '**Error**: '
PreErrorContent ==
  <<"*", "*", "E", "r", "r", "o", "r", "*", "*", ":", " ">>

\* 'Hello'
ResponseText ==
  <<"H", "e", "l", "l", "o">>


\* ---- the note of a non-image attachment (chat-completion/index.ts:84)

\* '\n\nAttached file: '
NoteHead ==
  <<"\n", "\n", "A", "t", "t", "a", "c", "h", "e", "d", " ", "f", "i", "l", "e", ":", " ">>

\* ' ('
NoteOpen ==
  <<" ", "(">>

\* ')'
NoteClose ==
  <<")">>

\* 'unknown type'
UnknownType ==
  <<"u", "n", "k", "n", "o", "w", "n", " ", "t", "y", "p", "e">>

\* 'Please analyze the uploaded files.'
AnalyzePrompt ==
  <<"P", "l", "e", "a", "s", "e", " ", "a", "n", "a", "l", "y", "z", "e", " ", "t", "h", "e",
    " ", "u", "p", "l", "o", "a", "d", "e", "d", " ", "f", "i", "l", "e", "s", ".">>


\* ------------------------------------- chat-completion: the user content
TextPart(text)  == [kind |-> "text", text |-> text]
ImagePart(file) == [kind |-> "image", text |-> file.name]

\* file.type?.startsWith('image/')
IsImage(file) == StartsWith(file.type, ImagePrefix)

\* the note of chat-completion/index.ts:84
AttachedNote(file) ==
  NoteHead \o file.name \o NoteOpen
    \o (IF file.type = <<>> THEN UnknownType ELSE file.type) \o NoteClose

RECURSIVE NotesOf(_)
NotesOf(files) ==
  IF files = <<>> THEN <<>>
  ELSE (IF IsImage(Head(files)) THEN <<>> ELSE AttachedNote(Head(files)))
         \o NotesOf(Tail(files))

RECURSIVE ImagesOf(_)
ImagesOf(files) ==
  IF files = <<>> THEN <<>>
  ELSE (IF IsImage(Head(files)) THEN <<ImagePart(Head(files))>> ELSE <<>>)
         \o ImagesOf(Tail(files))

\* userMessageContent of chat-completion/index.ts:61-94 (OpenAI handler)
userMessageContent(message, files) ==
  IF files # <<>>
  THEN <<TextPart((IF message = <<>> THEN AnalyzePrompt ELSE message) \o NotesOf(files))>>
         \o ImagesOf(files)
  ELSE <<TextPart(message)>>

\* userParts of the Gemini handler (part_001:118-140)
userParts(message, files) == <<TextPart(message)>> \o ImagesOf(files)

\* ------------------------------------- chat-completion: the answer
Handlers == {"openai", "openai200", "gemini"}

NoRequest == <<>>

\* what the AI provider does with the request: it answers with a completion,
\* with an error status and text (a 429 may carry retry-after), with a body
\* of another shape, or the fetch throws
UpOk        == [kind |-> "ok", status |-> 200, text |-> ResponseText, retryAfter |-> <<>>]
UpMalformed == [kind |-> "malformed", status |-> 200, text |-> <<>>, retryAfter |-> <<>>]
UpThrows    == [kind |-> "throws", status |-> 0, text |-> <<>>, retryAfter |-> <<>>]
UpError(status, text, retryAfter) ==
  [kind |-> "error", status |-> status, text |-> text, retryAfter |-> retryAfter]

Upstreams ==
  {UpOk, UpMalformed, UpThrows, UpError(429, UpRate, RetryN), UpError(500, UpOther, <<>>)}
    \cup {UpError(400, t, <<>>) : t \in UpstreamErrors \ {UpRate}}

ErrorBody(error, details, type, retryAfter) ==
  [kind |-> "error", text |-> error, details |-> details, type |-> type,
   retryAfter |-> retryAfter]
ResponseBody(text) ==
  [kind |-> "response", text |-> text, details |-> <<>>, type |-> "", retryAfter |-> <<>>]

Answer(status, body, request) == [status |-> status, body |-> body, request |-> request]

\* 'Missing "message" in request body'
ErrMissingMessage ==
  <<"M", "i", "s", "s", "i", "n", "g", " ", "\"", "m", "e", "s", "s", "a", "g", "e", "\"",
    " ", "i", "n", " ", "r", "e", "q", "u", "e", "s", "t", " ", "b", "o", "d", "y">>

\* 'OpenAI upstream error'
ErrOpenAIUpstream ==
  <<"O", "p", "e", "n", "A", "I", " ", "u", "p", "s", "t", "r", "e", "a", "m", " ", "e", "r",
    "r", "o", "r">>

\* 'Gemini upstream error'
ErrGeminiUpstream ==
  <<"G", "e", "m", "i", "n", "i", " ", "u", "p", "s", "t", "r", "e", "a", "m", " ", "e", "r",
    "r", "o", "r">>

\* 'Gemini rate limit exceeded. Please try again in a moment.'
ErrGeminiRate ==
  <<"G", "e", "m", "i", "n", "i", " ", "r", "a", "t", "e", " ", "l", "i", "m", "i", "t", " ",
    "e", "x", "c", "e", "e", "d", "e", "d", ".", " ", "P", "l", "e", "a", "s", "e", " ", "t",
    "r", "y", " ", "a", "g", "a", "i", "n", " ", "i", "n", " ", "a", " ", "m", "o", "m", "e",
    "n", "t", ".">>

\* 'Invalid response structure from OpenAI'
ErrInvalidOpenAI ==
  <<"I", "n", "v", "a", "l", "i", "d", " ", "r", "e", "s", "p", "o", "n", "s", "e", " ", "s",
    "t", "r", "u", "c", "t", "u", "r", "e", " ", "f", "r", "o", "m", " ", "O", "p", "e", "n",
    "A", "I">>

\* 'Invalid response structure from Gemini'
ErrInvalidGemini ==
  <<"I", "n", "v", "a", "l", "i", "d", " ", "r", "e", "s", "p", "o", "n", "s", "e", " ", "s",
    "t", "r", "u", "c", "t", "u", "r", "e", " ", "f", "r", "o", "m", " ", "G", "e", "m", "i",
    "n", "i">>

\* 'Edge function crashed'
ErrCrashed ==
  <<"E", "d", "g", "e", " ", "f", "u", "n", "c", "t", "i", "o", "n", " ", "c", "r", "a", "s",
    "h", "e", "d">>

\* 'Cannot read properties of undefined'
ErrTypeError ==
  <<"C", "a", "n", "n", "o", "t", " ", "r", "e", "a", "d", " ", "p", "r", "o", "p", "e", "r",
    "t", "i", "e", "s", " ", "o", "f", " ", "u", "n", "d", "e", "f", "i", "n", "e", "d">>


\* the OpenAI handler, chat-completion/index.ts:25-166
chatCompletionOpenAI(message, files, up) ==
  LET request == userMessageContent(message, files) IN
  IF message = <<>> THEN Answer(400, ErrorBody(ErrMissingMessage, <<>>, "", <<>>), NoRequest)
  ELSE IF up.kind = "throws"
  THEN Answer(500, ErrorBody(ErrCrashed, <<>>, "", <<>>), request)
  ELSE IF up.kind = "error"
  THEN Answer(IF up.status >= 500 THEN 502 ELSE 400,
              ErrorBody(ErrOpenAIUpstream, up.text, "", <<>>), request)
  ELSE IF up.kind = "malformed"
  THEN Answer(502, ErrorBody(ErrInvalidOpenAI, <<>>, "", <<>>), request)
  ELSE Answer(200, ResponseBody(up.text), request)

\* the later revision of the OpenAI handler, chat-completion/index.ts:178-289:
\* an upstream error is answered with status 200 and {error}
chatCompletionOpenAI200(message, files, up) ==
  LET request == userMessageContent(message, files) IN
  IF up.kind = "throws"
  THEN Answer(500, ErrorBody(ErrCrashed, <<>>, "", <<>>), request)
  ELSE IF up.kind = "error"
  THEN Answer(200, ErrorBody(up.text, <<>>, "", <<>>), request)
  ELSE IF up.kind = "malformed"
  THEN Answer(500, ErrorBody(ErrTypeError, <<>>, "", <<>>), request)
  ELSE Answer(200, ResponseBody(up.text), request)

\* the Gemini handler, part_001:42-231
chatCompletionGemini(message, files, up) ==
  LET request == userParts(message, files) IN
  IF message = <<>> THEN Answer(400, ErrorBody(ErrMissingMessage, <<>>, "", <<>>), NoRequest)
  ELSE IF up.kind = "throws"
  THEN Answer(500, ErrorBody(ErrCrashed, <<>>, "", <<>>), request)
  ELSE IF up.kind = "error"
  THEN IF up.status = 429
       THEN Answer(429, ErrorBody(ErrGeminiRate, <<>>, "rate_limit", up.retryAfter), request)
       ELSE Answer(IF up.status >= 500 THEN 502 ELSE 400,
                   ErrorBody(ErrGeminiUpstream, up.text, "", <<>>), request)
  ELSE IF up.kind = "malformed"
  THEN Answer(502, ErrorBody(ErrInvalidGemini, <<>>, "", <<>>), request)
  ELSE Answer(200, ResponseBody(up.text), request)

chatCompletion(handler, message, files, up) ==
  IF handler = "openai" THEN chatCompletionOpenAI(message, files, up)
  ELSE IF handler = "openai200" THEN chatCompletionOpenAI200(message, files, up)
  ELSE chatCompletionGemini(message, files, up)

\* ------------------------------------- sendQuestion: from invoke to the list
NoData == [kind |-> "null", text |-> <<>>, details |-> <<>>, type |-> "", retryAfter |-> <<>>]

\* supabase.functions.invoke: a non-2xx answer becomes {data: null, error};
\* transport "fetchFailed": the request does not reach the function
Transports == {"ok", "fetchFailed"}

invoke(answer, transport) ==
  IF transport = "fetchFailed" THEN [data |-> NoData, error |-> MsgFetchFailed]
  ELSE IF answer.status < 200 \/ answer.status > 299
  THEN [data |-> NoData, error |-> SubNon2xx]
  ELSE IF answer.body.kind = "null" THEN [data |-> NoData, error |-> <<>>]
  ELSE [data |-> answer.body, error |-> <<>>]

\* what the try block of sendQuestion ends with (Questions.tsx:323-368): the
\* response, or the thrown value (an Error with its message, or another value)
Thrown(message) == [ok |-> FALSE, isError |-> TRUE, text |-> message]
ThrownOther     == [ok |-> FALSE, isError |-> FALSE, text |-> <<>>]
Returned(text)  == [ok |-> TRUE, isError |-> FALSE, text |-> text]

sendQuestionTry(r, filesRead) ==
  IF ~filesRead THEN ThrownOther                              \* fileToBase64 rejects (:285)
  ELSE IF r.error # <<>> THEN Thrown(PreInvoke \o r.error)     \* :345-348
  ELSE IF r.data.kind = "error"                               \* :351
  THEN IF r.data.type = "rate_limit"                          \* :355-359
       THEN Thrown(MsgRateHead
                     \o (IF r.data.retryAfter # <<>>
                         THEN MsgRetryIn \o r.data.retryAfter \o MsgSeconds
                         ELSE MsgFewMinutes)
                     \o MsgBilling)
       ELSE Thrown(PreEdge \o r.data.text \o SepDetails \o r.data.details)  \* :361
  ELSE IF r.data.kind = "null" THEN Thrown(MsgNoData)         \* :364-367
  ELSE Returned(r.data.text)                                  \* :369

\* the catch block with the quota test before the rate-limit test
sendQuestionCatch_QuotaFirst(e) ==
  IF ~e.isError THEN [content |-> ContentGeneric, toast |-> ToastGeneric]
  ELSE IF Includes(e.text, SubQuota) THEN [content |-> ContentQuota, toast |-> ToastQuota]
  ELSE IF Includes(e.text, SubRateReached) \/ Includes(e.text, SubRateExceeded)
  THEN [content |-> ContentRate, toast |-> ToastRate]
  ELSE IF Includes(e.text, SubInvalidKey) THEN [content |-> ContentKey, toast |-> ToastKey]
  ELSE IF Includes(e.text, SubNon2xx) THEN [content |-> ContentNon2xx, toast |-> ToastNon2xx]
  ELSE IF e.text # <<>> THEN [content |-> PreErrorContent \o e.text, toast |-> e.text]
  ELSE [content |-> ContentGeneric, toast |-> ToastGeneric]

\* the catch block of sendQuestion (Questions.tsx:395-421): the content of the
\* assistant message it appends and the toast
sendQuestionCatch(e) ==
  IF ~e.isError THEN [content |-> ContentGeneric, toast |-> ToastGeneric]
  ELSE IF Includes(e.text, SubRateReached) \/ Includes(e.text, SubRateExceeded)
  THEN [content |-> ContentRate, toast |-> ToastRate]
  ELSE IF Includes(e.text, SubQuota) THEN [content |-> ContentQuota, toast |-> ToastQuota]
  ELSE IF Includes(e.text, SubInvalidKey) THEN [content |-> ContentKey, toast |-> ToastKey]
  ELSE IF Includes(e.text, SubNon2xx) THEN [content |-> ContentNon2xx, toast |-> ToastNon2xx]
  ELSE IF e.text # <<>> THEN [content |-> PreErrorContent \o e.text, toast |-> e.text]
  ELSE [content |-> ContentGeneric, toast |-> ToastGeneric]

\* ------------------------------------- the list and the calls
UserMessage(t, text) ==
  [turn |-> t, role |-> "user", content |-> text, persisted |-> FALSE]
AssistantMessage(t, text) ==
  [turn |-> t, role |-> "assistant", content |-> text, persisted |-> FALSE]

\* setMessages(prev => prev.map(msg => msg.id === id ? {...msg, id: dbId} : msg))
Rename(list, t, role) ==
  [i \in 1..Len(list) |->
     IF list[i].turn = t /\ list[i].role = role
     THEN [list[i] EXCEPT !.persisted = TRUE] ELSE list[i]]

\* no answer of chat-completion is on its way to the page
NoAnswer == [status |-> 0, body |-> NoData]

\* a sendQuestion call: where it is, what its closure holds (the question, the
\* files, whether it persists), its chat-completion calls, the answer of
\* chat-completion on its way to the page, and what its try block ended with
FreeTurn ==
  [phase |-> "free", question |-> <<>>, files |-> <<>>, persist |-> FALSE, calls |-> 0,
   answer |-> NoAnswer, outcome |-> Returned(<<>>)]

\* the state of the page before any question
NoTurns ==
  /\ messageList = <<>>
  /\ inputText = <<>>
  /\ selectedFiles = <<>>
  /\ isProcessing = FALSE
  /\ currentConversationId = NoConversation
  /\ conversationPending = FALSE
  /\ turns = [t \in TurnIds |-> FreeTurn]
  /\ backend = "gemini"
  /\ turnLimit = 0
  /\ aiRequest = NoRequest
  /\ toastText = <<>>

\* the speech-to-text function before a request
NoResponse == [status |-> 0, kind |-> "none", text |-> ""]

NoStt ==
  /\ sttPc = "idle"
  /\ attempts = 0
  /\ polls = 0
  /\ transcript = "none"
  /\ sttResponse = NoResponse
  /\ voice = NoVoice

\* ------------------------------------------------ narration: data

\* the empty value of speechState, Questions.tsx:101-107
EmptySpeech ==
  [messageId |-> NoMsg, text |-> <<>>, position |-> 0, isPaused |-> FALSE, isLoading |-> FALSE]

FreeAudio == [state |-> "free", msg |-> NoMsg, start |-> 0, len |-> 0, ticks |-> 0, cap |-> NoAudio]
FreeUtt   == [state |-> "free", msg |-> NoMsg, start |-> 0, len |-> 0, ticks |-> 0, cap |-> NoAudio,
              interval |-> FALSE]
FreePend  == [state |-> "free", msg |-> NoMsg, text |-> <<>>, cap |-> NoAudio]

\* one narration at a time, with the callbacks of the one before it
OnePool == [aud |-> MaxAudio, utt |-> MaxUtt, pend |-> MaxPending]

\* the mutable part of the state as one value, so that handlers compose
St ==
  [ss |-> speechState, msgs |-> messages, cur |-> currentAudio, aud |-> audios,
   utt |-> utterances, pend |-> pending, toast |-> {}, err |-> FALSE, full |-> FALSE]

\* the handler needs an element beyond the bounds of the model
Full(s) == [s EXCEPT !.full = TRUE]

\* ------------------------------------------------- playback backends
\* a reference to an audio element that stops playing becomes DeadAudio
Ref(h, a) == IF h = a THEN DeadAudio ELSE h

\* HTMLAudioElement.pause() on handle h
PauseAudio(s, h) ==
  IF h \in AudioIds /\ s.aud[h].state = "playing"
  THEN [s EXCEPT
          !.aud  = [x \in AudioIds |->
                      IF x = h THEN FreeAudio ELSE [s.aud[x] EXCEPT !.cap = Ref(@, h)]],
          !.utt  = [u \in UttIds |-> [s.utt[u] EXCEPT !.cap = Ref(@, h)]],
          !.pend = [q \in PendIds |-> [s.pend[q] EXCEPT !.cap = Ref(@, h)]],
          !.cur  = Ref(@, h)]
  ELSE s

\* the closure value of a handle after the handler has paused it
Paused(h) == IF h = NoAudio THEN NoAudio ELSE DeadAudio

\* window.speechSynthesis.speaking
Speaking(s) == \E u \in UttIds : s.utt[u].state = "speaking"

\* window.speechSynthesis.cancel(): the utterance being spoken is dropped and
\* its end / error event is queued
Cancel(s) ==
  [s EXCEPT !.utt = [u \in UttIds |->
     IF s.utt[u].state = "speaking" THEN [s.utt[u] EXCEPT !.state = "cancelled"] ELSE s.utt[u]]]

FreeAudioIds(s) == {a \in 1..pool.aud : s.aud[a].state = "free"}
FreeUttIds(s)   == {u \in 1..pool.utt : s.utt[u].state = "free"}
FreePendIds(s)  == {q \in 1..pool.pend : s.pend[q].state = "free"}
Lowest(S)       == CHOOSE x \in S : \A y \in S : x <= y

\* characters spoken after n firings of the progress timer
Estimated(n) == (n * TickMs * CharsPerSecond) \div 1000

Min(a, b) == IF a <= b THEN a ELSE b

AddToast(s, t) == [s EXCEPT !.toast = @ \cup {t}]

\* ------------------------------------------------------------ handlers
\* a stop that leaves the isPlaying flags of the messages
stopSpeech_KeepPlaying(s, cap) ==
  LET s1 == IF cap # NoAudio THEN [PauseAudio(s, cap) EXCEPT !.cur = NoAudio] ELSE s
  IN  IF ~webSpeechSupported
      THEN [s1 EXCEPT !.err = TRUE]
      ELSE LET s2 == IF Speaking(s1) THEN Cancel(s1) ELSE s1
           IN  [s2 EXCEPT !.ss = EmptySpeech]

stopSpeech(s, cap) ==
  LET s1 == IF cap # NoAudio THEN [PauseAudio(s, cap) EXCEPT !.cur = NoAudio] ELSE s
  IN  IF ~webSpeechSupported
      THEN [s1 EXCEPT !.err = TRUE]     \* window.speechSynthesis is undefined
      ELSE LET s2 == IF Speaking(s1) THEN Cancel(s1) ELSE s1
           IN  [s2 EXCEPT !.ss = EmptySpeech,
                          !.msgs = [m \in Msgs |-> [s2.msgs[m] EXCEPT !.isPlaying = FALSE]]]

\* a playback that marks every message of the list as playing
playSpeechFromPosition_AllPlaying(s, messageId, audioUrl, text, startPosition, cap) ==
  LET s1 == PauseAudio(s, cap)
      a  == Lowest(FreeAudioIds(s1))
  IN  IF FreeAudioIds(s1) = {} THEN Full(s) ELSE
      [s1 EXCEPT
         !.cur  = a,
         !.aud  = [@ EXCEPT ![a] = [state |-> "playing", msg |-> messageId,
                                    start |-> startPosition, len |-> Len(text), ticks |-> 0,
                                    cap |-> Paused(cap)]],
         !.ss   = [@ EXCEPT !.isPaused = FALSE, !.isLoading = FALSE,
                            !.position = startPosition],
         !.msgs = [m \in Msgs |-> [s1.msgs[m] EXCEPT !.isPlaying = TRUE]]]

playSpeechFromPosition(s, messageId, audioUrl, text, startPosition, cap) ==
  LET s1 == PauseAudio(s, cap)
      a  == Lowest(FreeAudioIds(s1))
  IN  IF FreeAudioIds(s1) = {} THEN Full(s) ELSE
      [s1 EXCEPT
         !.cur  = a,
         !.aud  = [@ EXCEPT ![a] = [state |-> "playing", msg |-> messageId,
                                    start |-> startPosition, len |-> Len(text), ticks |-> 0,
                                    cap |-> Paused(cap)]],
         !.ss   = [@ EXCEPT !.isPaused = FALSE, !.isLoading = FALSE,
                            !.position = startPosition],
         !.msgs = [m \in Msgs |-> [s1.msgs[m] EXCEPT !.isPlaying = (m = messageId)]]]

speakWithWebSpeech(s, messageId, text, startPosition, cap) ==
  IF Trim(Substring(text, startPosition)) = <<>>
  THEN stopSpeech(s, cap)
  ELSE IF ~webSpeechSupported
  THEN [s EXCEPT !.err = TRUE]
  ELSE LET s1 == Cancel(s)
           u  == Lowest(FreeUttIds(s1))
       IN  IF FreeUttIds(s1) = {} THEN Full(s) ELSE
           [s1 EXCEPT
              !.ss   = [@ EXCEPT !.isPaused = FALSE, !.isLoading = FALSE,
                                 !.position = startPosition],
              !.msgs = [m \in Msgs |-> [s1.msgs[m] EXCEPT !.isPlaying = (m = messageId)]],
              !.utt  = [@ EXCEPT ![u] = [state |-> "speaking", msg |-> messageId,
                                         start |-> startPosition, len |-> Len(text),
                                         ticks |-> 0, cap |-> cap, interval |-> TRUE]]]

pauseSpeech(s, cap) ==
  IF s.ss.messageId # NoMsg
  THEN LET s1 == PauseAudio(s, cap)
           s2 == IF Speaking(s1) THEN Cancel(s1) ELSE s1
       IN  [s2 EXCEPT !.ss   = [@ EXCEPT !.isPaused = TRUE, !.isLoading = FALSE],
                      !.msgs = [m \in Msgs |->
                                  IF m = s.ss.messageId
                                  THEN [s2.msgs[m] EXCEPT !.isPlaying = FALSE]
                                  ELSE s2.msgs[m]]]
  ELSE s

\* a resume that does not look at isPaused
resumeSpeech_Unpaused(s, cap) ==
  IF s.ss.messageId # NoMsg
  THEN LET url == s.msgs[s.ss.messageId].audioUrl IN
       IF url # NoUrl /\ url # WebSpeech
       THEN playSpeechFromPosition(s, s.ss.messageId, url, s.ss.text, s.ss.position, cap)
       ELSE speakWithWebSpeech(s, s.ss.messageId, s.ss.text, s.ss.position, cap)
  ELSE s

\* a resume that starts the narration over
resumeSpeech_FromStart(s, cap) ==
  IF s.ss.messageId # NoMsg /\ s.ss.isPaused
  THEN LET url == s.msgs[s.ss.messageId].audioUrl IN
       IF url # NoUrl /\ url # WebSpeech
       THEN playSpeechFromPosition(s, s.ss.messageId, url, s.ss.text, 0, cap)
       ELSE speakWithWebSpeech(s, s.ss.messageId, s.ss.text, 0, cap)
  ELSE s

resumeSpeech(s, cap) ==
  IF s.ss.messageId # NoMsg /\ s.ss.isPaused
  THEN LET url == s.msgs[s.ss.messageId].audioUrl IN
       IF url # NoUrl /\ url # WebSpeech
       THEN playSpeechFromPosition(s, s.ss.messageId, url, s.ss.text, s.ss.position, cap)
       ELSE speakWithWebSpeech(s, s.ss.messageId, s.ss.text, s.ss.position, cap)
  ELSE s

\* a startSpeech without the mute test
startSpeech_IgnoreMute(s, messageId, c, cap) ==
  IF Trim(c) = <<>> THEN AddToast(s, "No content available for text-to-speech")
  ELSE IF SpeechErrorMarker(c) THEN AddToast(s, "Cannot generate audio for error messages")
  ELSE LET cleaned == cleanTextForSpeech(c)
           q == Lowest(FreePendIds(s))
       IN  IF FreePendIds(s) = {} THEN Full(s) ELSE
           [s EXCEPT
              !.ss   = [messageId |-> messageId, text |-> cleaned, position |-> 0,
                        isPaused |-> FALSE, isLoading |-> TRUE],
              !.pend = [@ EXCEPT ![q] = [state |-> "waiting", msg |-> messageId,
                                         text |-> cleaned, cap |-> cap]]]

\* startSpeech up to its await (Questions.tsx:583-614)
startSpeech(s, messageId, c, cap) ==
  IF isMuted THEN AddToast(s, "Audio is muted. Unmute to hear the response.")
  ELSE IF Trim(c) = <<>> THEN AddToast(s, "No content available for text-to-speech")
  ELSE IF SpeechErrorMarker(c) THEN AddToast(s, "Cannot generate audio for error messages")
  ELSE LET cleaned == cleanTextForSpeech(c)
           q == Lowest(FreePendIds(s))
       IN  IF FreePendIds(s) = {} THEN Full(s) ELSE
           [s EXCEPT
              !.ss   = [messageId |-> messageId, text |-> cleaned, position |-> 0,
                        isPaused |-> FALSE, isLoading |-> TRUE],
              !.pend = [@ EXCEPT ![q] = [state |-> "waiting", msg |-> messageId,
                                         text |-> cleaned, cap |-> cap]]]

\* the branch handleReadAloud takes
Branch(s, messageId) ==
  IF s.ss.messageId = messageId
  THEN IF s.ss.isPaused THEN "resume"
       ELSE IF s.ss.isLoading THEN "loading" ELSE "pause"
  ELSE "start"

handleReadAloud(s, messageId, c) ==
  LET cap == s.cur
      b   == Branch(s, messageId)
  IN  IF b = "resume" THEN resumeSpeech(s, cap)
      ELSE IF b = "loading" THEN s
      ELSE IF b = "pause" THEN pauseSpeech(s, cap)
      ELSE LET s1 == stopSpeech(s, cap)
           IN  IF s1.err THEN s1 ELSE startSpeech(s1, messageId, c, Paused(cap))


\* ------------------------------------- text-to-speech edge function
Outcomes == {"ok", "nonok", "throws"}   \* of one fetch: 2xx, other status, exception

Call(provider, result) == [provider |-> provider, result |-> result]

\* a handler that turns to OpenAI first and to ElevenLabs after it
ttsServe_OpenAIFirst(textLen, elevenKey, openaiKey, e, o1, o2) ==
  IF textLen = 0 THEN [ok |-> FALSE, calls |-> <<>>]
  ELSE IF o1 = "ok" THEN [ok |-> TRUE, calls |-> <<Call("openai", o1)>>]
  ELSE [ok |-> (e = "ok"), calls |-> <<Call("openai", o1), Call("elevenlabs", e)>>]

\* The serve handler of text-to-speech/index.ts: the providers it turns to,
\* in order, each with the result of the call ("nokey": the key is not
\* configured and no call is made), and whether the handler answers
\* {audioContent} (ok) or 400 {error}.
\* elevenKey / openaiKey: the API key is configured; e: the ElevenLabs fetch;
\* o1, o2: the first and the second OpenAI fetch of the request.
ttsServe(textLen, elevenKey, openaiKey, e, o1, o2) ==
  LET E  == Call("elevenlabs", e)
      NE == Call("elevenlabs", "nokey")
      NO == Call("openai", "nokey")
  IN
  IF textLen = 0 THEN [ok |-> FALSE, calls |-> <<>>]                         \* :19-21
  ELSE IF ~elevenKey THEN                                                    \* :25
    IF ~openaiKey THEN [ok |-> FALSE, calls |-> <<NE, NO>>]                  \* :29-31
    ELSE [ok |-> (o1 = "ok"), calls |-> <<NE, Call("openai", o1)>>]          \* :34-71
  ELSE IF e = "ok" THEN [ok |-> TRUE, calls |-> <<E>>]                       \* :165-185
  ELSE IF ~openaiKey THEN [ok |-> FALSE, calls |-> <<E, NO>>]                \* :113-115, 191-193
  ELSE IF e = "throws" \/ o1 = "ok"                                          \* :186-233, :117-162
    THEN [ok |-> (o1 = "ok"), calls |-> <<E, Call("openai", o1)>>]
  \* ElevenLabs answered non-OK and the OpenAI fallback failed inside the inner
  \* try (:131-143): catch (elevenlabsError) runs and calls OpenAI again (:196)
  ELSE [ok |-> (o2 = "ok"), calls |-> <<E, Call("openai", o1), Call("openai", o2)>>]

\* a generateAudio that reports the failure of the remote request before it
\* falls back to platform synthesis
generateAudio_ToastEarly(s, server, transport) ==
  IF transport = "ok" /\ server.ok THEN [s |-> s, url |-> DataUrl]
  ELSE IF webSpeechSupported
  THEN [s |-> AddToast(Cancel(s), "TTS unavailable"), url |-> WebSpeech]
  ELSE IF transport = "ok" THEN [s |-> AddToast(s, "TTS unavailable"), url |-> NoUrl]
  ELSE [s |-> AddToast(s, "All audio services unavailable - continuing with text only"), url |-> NoUrl]

\* generateAudio (Questions.tsx:873-935) on the answer of the edge function.
\* transport: supabase.functions.invoke returned ("ok") or threw ("throws").
\* Gives the state (generateWebSpeechAudio cancels ongoing speech, :942), the
\* toasts and the audio url returned.
generateAudio(s, server, transport) ==
  IF transport = "ok" /\ server.ok THEN [s |-> s, url |-> DataUrl]
  ELSE IF webSpeechSupported THEN [s |-> Cancel(s), url |-> WebSpeech]
  ELSE IF transport = "ok" THEN [s |-> AddToast(s, "TTS unavailable"), url |-> NoUrl]
  ELSE [s |-> AddToast(s, "All audio services unavailable - continuing with text only"), url |-> NoUrl]

\* a continuation that gives up when the remote request has failed
startSpeechResume_GivesUp(s, q, server, transport) ==
  LET r  == s.pend[q]
      g  == generateAudio([s EXCEPT !.pend[q] = FreePend], server, transport)
      s1 == g.s
  IN  IF g.url # NoUrl /\ g.url # WebSpeech
      THEN playSpeechFromPosition(
             [s1 EXCEPT !.msgs[r.msg].audioUrl = g.url], r.msg, g.url, r.text, 0, r.cap)
      ELSE s1

\* startSpeech after its await (Questions.tsx:614-645), for the suspended call q
startSpeechResume(s, q, server, transport) ==
  LET r  == s.pend[q]
      g  == generateAudio([s EXCEPT !.pend[q] = FreePend], server, transport)
      s1 == g.s
  IN  IF g.url # NoUrl /\ g.url # WebSpeech
      THEN playSpeechFromPosition(
             [s1 EXCEPT !.msgs[r.msg].audioUrl = g.url], r.msg, g.url, r.text, 0, r.cap)
      ELSE LET s2 == speakWithWebSpeech(
                       [s1 EXCEPT !.msgs[r.msg].audioUrl = WebSpeech], r.msg, r.text, 0, r.cap)
           IN  IF s2.err
               THEN [AddToast(s2, "Failed to generate speech")
                       EXCEPT !.ss = EmptySpeech, !.err = FALSE]
               ELSE s2

\* the answers of the edge function over every configuration of the keys and
\* every outcome of the provider calls
AnswersText  == {ttsServe(1, k1, k2, e, o1, o2) :
                   k1, k2 \in BOOLEAN, e, o1, o2 \in Outcomes}
AnswersEmpty == {ttsServe(0, k1, k2, e, o1, o2) :
                   k1, k2 \in BOOLEAN, e, o1, o2 \in Outcomes}
Answers(textLen) == IF textLen = 0 THEN AnswersEmpty ELSE AnswersText

\* what the last step's request went through: the providers the edge function
\* turned to, the answer generateAudio received from it, and whether
\* platform synthesis was then attempted
NoLog == [calls |-> <<>>, remote |-> "none", platform |-> "none"]

Log(server, transport, url) ==
  [calls    |-> server.calls,
   remote   |-> IF transport = "throws" THEN "throws" ELSE IF server.ok THEN "ok" ELSE "error",
   platform |-> IF url = DataUrl THEN "none" ELSE IF webSpeechSupported THEN "ok" ELSE "throws"]

\* ------------------------------------------------------------- actions
Op(name, m) == [name |-> name, msg |-> m]

Set(s) ==
  /\ ~s.full
  /\ speechState' = s.ss
  /\ messages' = s.msgs
  /\ currentAudio' = s.cur
  /\ audios' = s.aud
  /\ utterances' = s.utt
  /\ pending' = s.pend
  /\ toast' = s.toast
  /\ UNCHANGED <<content, webSpeechSupported, pool, user, imageGenerating, generatedImages>>
  /\ UNCHANGED <<turnVars, sttVars, voice>>

\* the Read Aloud / Pause / Resume button of message m (Questions.tsx:1078-1125),
\* disabled while speechState.isLoading
HandleReadAloud(m) ==
  /\ ~speechState.isLoading
  /\ Set(handleReadAloud(St, m, content[m]))
  /\ op' = Op(Branch(St, m), m)
  /\ ttsLog' = NoLog
  /\ UNCHANGED isMuted

\* the Stop button, rendered on the row of the narrated message
\* (Questions.tsx:1099-1107), disabled while speechState.isLoading
StopButton ==
  /\ speechState.messageId \in Msgs
  /\ ~speechState.isLoading
  /\ Set(stopSpeech(St, currentAudio))
  /\ op' = Op("stop", speechState.messageId)
  /\ ttsLog' = NoLog
  /\ UNCHANGED isMuted

\* the mute button of the page header (Questions.tsx:1606)
ToggleMute ==
  /\ isMuted' = ~isMuted
  /\ toast' = {}
  /\ op' = Op("toggleMute", NoMsg)
  /\ ttsLog' = NoLog
  /\ UNCHANGED <<content, messages, speechState, currentAudio, webSpeechSupported,
                 audios, utterances, pending, pool, user, imageGenerating, generatedImages>>
  /\ UNCHANGED <<turnVars, sttVars, voice>>

\* generateAudio settles for the suspended startSpeech call q, on one of the
\* given answers of the edge function
ResolveWith(q, answers, transports) ==
  /\ pending[q].state = "waiting"
  /\ \E server \in answers, transport \in transports :
       LET url == generateAudio(St, server, transport).url
       IN  /\ Set(startSpeechResume(St, q, server, transport))
           /\ ttsLog' = Log(server, transport, url)
  /\ op' = Op("resolve", pending[q].msg)
  /\ UNCHANGED isMuted

Resolve(q) == ResolveWith(q, Answers(Len(pending[q].text)), {"ok", "throws"})

\* the 500 ms timer of playSpeechFromPosition (Questions.tsx:742-752)
AudioTick(a) ==
  /\ audios[a].state = "playing"
  /\ LET n == audios[a].ticks + 1 IN
     /\ audios[a].start + Estimated(n) <= audios[a].len + MaxOverrun
     /\ Set([St EXCEPT !.aud[a].ticks = n,
                       !.ss.position = audios[a].start + Estimated(n)])
  /\ op' = Op("audioTick", audios[a].msg)
  /\ ttsLog' = NoLog
  /\ UNCHANGED isMuted

\* an onended handler that clears the timer and stops nothing
AudioEnded_NoStop(a) ==
  /\ audios[a].state = "playing"
  /\ Set(PauseAudio(St, a))
  /\ op' = Op("audioEnded", audios[a].msg)
  /\ ttsLog' = NoLog
  /\ UNCHANGED isMuted

\* audio.onended (Questions.tsx:754-757)
AudioEnded(a) ==
  /\ audios[a].state = "playing"
  /\ Set(stopSpeech(PauseAudio(St, a), audios[a].cap))
  /\ op' = Op("audioEnded", audios[a].msg)
  /\ ttsLog' = NoLog
  /\ UNCHANGED isMuted

\* audio.onerror (Questions.tsx:759-763)
AudioError(a) ==
  /\ audios[a].state = "playing"
  /\ Set(AddToast(stopSpeech(PauseAudio(St, a), audios[a].cap), "Failed to play audio"))
  /\ op' = Op("audioError", audios[a].msg)
  /\ ttsLog' = NoLog
  /\ UNCHANGED isMuted

\* Firings of the timer of utterance x counted at its next firing.  Once the
\* estimate has reached the end of the text the count is kept: Math.min gives
\* the same position at every later firing.
Elapsed(x) == IF x.start + Estimated(x.ticks) >= x.len THEN x.ticks ELSE x.ticks + 1

\* the 500 ms timer of speakWithWebSpeech (Questions.tsx:814-825)
UttTick(u) ==
  /\ utterances[u].state # "free"
  /\ utterances[u].interval
  /\ IF ~Speaking(St)
     THEN Set([St EXCEPT !.utt[u] = [@ EXCEPT !.interval = FALSE, !.start = 0,   \* clearInterval:
                                              !.len = 0, !.ticks = 0]])         \* no later reading
     ELSE LET n == Elapsed(utterances[u]) IN
          Set([St EXCEPT !.utt[u].ticks = n,
                         !.ss.position = Min(utterances[u].start + Estimated(n),
                                             utterances[u].len)])
  /\ op' = Op("uttTick", utterances[u].msg)
  /\ ttsLog' = NoLog
  /\ UNCHANGED isMuted

\* utterance.onend / onerror (Questions.tsx:827-836): the utterance finished,
\* failed, or was dropped by cancel()
UttEnd(u) ==
  /\ utterances[u].state \in {"speaking", "cancelled"}
  /\ Set(stopSpeech([St EXCEPT !.utt[u] = FreeUtt], utterances[u].cap))
  /\ op' = Op(IF utterances[u].state = "speaking" THEN "uttEnd" ELSE "uttCancelled",
              utterances[u].msg)
  /\ ttsLog' = NoLog
  /\ UNCHANGED isMuted

Init ==
  /\ content \in {[m \in Msgs |-> IF m = 1 THEN Good1 ELSE c] : c \in {Good2} \cup BadContents}
  /\ messages = [m \in Msgs |-> [isPlaying |-> FALSE, audioUrl |-> NoUrl]]
  /\ speechState = EmptySpeech
  /\ currentAudio = NoAudio
  /\ isMuted = FALSE
  /\ webSpeechSupported \in BOOLEAN
  /\ audios = [a \in AudioIds |-> FreeAudio]
  /\ utterances = [u \in UttIds |-> FreeUtt]
  /\ pending = [q \in PendIds |-> FreePend]
  /\ pool = OnePool
  /\ user = TRUE
  /\ imageGenerating = {}
  /\ generatedImages = {}
  /\ toast = {}
  /\ ttsLog = NoLog
  /\ op = Op("init", NoMsg)
  /\ NoTurns
  /\ NoStt

Next ==
  \/ \E m \in Msgs : HandleReadAloud(m)
  \/ StopButton
  \/ ToggleMute
  \/ \E q \in PendIds : Resolve(q)
  \/ \E a \in AudioIds : AudioTick(a)
  \/ \E a \in AudioIds : AudioEnded(a)
  \/ \E a \in AudioIds : AudioError(a)
  \/ \E u \in UttIds : UttTick(u)
  \/ \E u \in UttIds : UttEnd(u)

Spec == Init /\ [][Next]_vars


\* ------------------------------------------------ the end of loading
\* a conversation of two messages that can be narrated
InitLoading ==
  /\ Init
  /\ content[2] = Good2

\* generateAudio settles, whatever the providers answer; an audio element that
\* plays reaches its end and a cancelled utterance delivers its end event
LoadingFairness ==
  /\ WF_vars(\E q \in PendIds : Resolve(q))
  /\ WF_vars(\E a \in AudioIds : AudioEnded(a))
  /\ WF_vars(\E u \in UttIds : UttEnd(u))

\* the steps that write speechState.isLoading or decide what a settled request
\* finds; the position timers and the mute button do neither
NextLoading ==
  \/ \E m \in Msgs : HandleReadAloud(m)
  \/ StopButton
  \/ \E q \in PendIds : Resolve(q)
  \/ \E a \in AudioIds : AudioEnded(a)
  \/ \E a \in AudioIds : AudioError(a)
  \/ \E u \in UttIds : UttEnd(u)

SpecLoading == InitLoading /\ [][NextLoading]_vars /\ LoadingFairness

\* ------------------------------------------------ resumeSpeech on its own
\* resumeSpeech called in whatever state the page is in (Questions.tsx:671-683)
ResumeSpeech ==
  /\ Set(resumeSpeech(St, currentAudio))
  /\ op' = Op("resumeSpeech", speechState.messageId)
  /\ ttsLog' = NoLog
  /\ UNCHANGED isMuted

NextResume ==
  \/ \E m \in Msgs : HandleReadAloud(m)
  \/ StopButton
  \/ ToggleMute
  \/ \E q \in PendIds : Resolve(q)
  \/ \E a \in AudioIds : AudioTick(a)
  \/ \E a \in AudioIds : AudioEnded(a)
  \/ \E a \in AudioIds : AudioError(a)
  \/ \E u \in UttIds : UttTick(u)
  \/ \E u \in UttIds : UttEnd(u)
  \/ ResumeSpeech

SpecResume == Init /\ [][NextResume]_vars

\* ------------------------------------------------ overlapping narrations
\* Narrations that overlap: a second startSpeech suspended at its await, a
\* second utterance or audio element alive next to the one before it.
Pools ==
  { [aud |-> MaxAudio, utt |-> MaxUtt + MaxStale, pend |-> MaxPending],
    [aud |-> MaxAudio, utt |-> MaxUtt, pend |-> MaxPending + MaxStale] }

\* the edge function answers with the audio of its first provider, or with an
\* error when no key is configured
AnswersOverlap ==
  {ttsServe(1, TRUE, TRUE, "ok", "ok", "ok"), ttsServe(1, FALSE, FALSE, "ok", "ok", "ok")}

ResolveOverlap(q) == ResolveWith(q, AnswersOverlap, {"ok"})

InitOverlap ==
  /\ content = [m \in Msgs |-> IF m = 1 THEN Good1 ELSE Good2]
  /\ messages = [m \in Msgs |-> [isPlaying |-> FALSE, audioUrl |-> NoUrl]]
  /\ speechState = EmptySpeech
  /\ currentAudio = NoAudio
  /\ isMuted = FALSE
  /\ webSpeechSupported = TRUE
  /\ audios = [a \in AudioIds |-> FreeAudio]
  /\ utterances = [u \in UttIds |-> FreeUtt]
  /\ pending = [q \in PendIds |-> FreePend]
  /\ pool \in Pools
  /\ user = TRUE
  /\ imageGenerating = {}
  /\ generatedImages = {}
  /\ toast = {}
  /\ ttsLog = NoLog
  /\ op = Op("init", NoMsg)
  /\ NoTurns
  /\ NoStt

NextOverlap ==
  \/ \E m \in Msgs : HandleReadAloud(m)
  \/ StopButton
  \/ \E q \in PendIds : ResolveOverlap(q)
  \/ \E a \in AudioIds : AudioTick(a)
  \/ \E a \in AudioIds : AudioEnded(a)
  \/ \E a \in AudioIds : AudioError(a)
  \/ \E u \in UttIds : UttTick(u)
  \/ \E u \in UttIds : UttEnd(u)

SpecOverlap == InitOverlap /\ [][NextOverlap]_vars

\* ----------------------------------------------------- image generation
ImageRejected(aiResponse) == Trim(aiResponse) = <<>> \/ ImageErrorMarker(aiResponse)

\* handleGenerateImage up to its first await (Questions.tsx:506-515): the set
\* imageGenerating and the toasts it leaves
handleGenerateImage(gen, messageId, aiResponse) ==
  IF messageId \in gen \/ ~user THEN [gen |-> gen, toast |-> {}]
  ELSE IF ImageRejected(aiResponse)
  THEN [gen |-> gen,
        toast |-> {"Cannot generate image for error messages or empty responses"}]
  ELSE [gen |-> gen \cup {messageId}, toast |-> {}]

\* the Generate Image button (Questions.tsx:1129-1147), disabled while the
\* image of the message is being generated
HandleGenerateImage(m) ==
  /\ m \notin imageGenerating
  /\ LET r == handleGenerateImage(imageGenerating, m, content[m]) IN
     /\ imageGenerating' = r.gen
     /\ toast' = r.toast
  /\ op' = Op("generateImage", m)
  /\ ttsLog' = NoLog
  /\ UNCHANGED <<content, messages, speechState, currentAudio, isMuted, webSpeechSupported,
                 audios, utterances, pending, pool, user, generatedImages>>
  /\ UNCHANGED <<turnVars, sttVars, voice>>

\* the rest of handleGenerateImage (Questions.tsx:517-580): the image arrives
\* (ok) or any step of the try block throws
ImageSettle(m) ==
  /\ m \in imageGenerating
  /\ \E ok \in BOOLEAN :
       /\ generatedImages' = IF ok THEN generatedImages \cup {m} ELSE generatedImages
       /\ toast' = IF ok THEN {"Image generated successfully!"}
                   ELSE {"Failed to generate image. Please try again."}
  /\ imageGenerating' = imageGenerating \ {m}
  /\ op' = Op("imageSettled", m)
  /\ ttsLog' = NoLog
  /\ UNCHANGED <<content, messages, speechState, currentAudio, isMuted, webSpeechSupported,
                 audios, utterances, pending, pool, user>>
  /\ UNCHANGED <<turnVars, sttVars, voice>>

\* a conversation whose second assistant message is one that must not be
\* narrated, with or without a signed-in user
InitImage ==
  /\ content \in {[m \in Msgs |-> IF m = 1 THEN Good1 ELSE c] : c \in BadContents}
  /\ messages = [m \in Msgs |-> [isPlaying |-> FALSE, audioUrl |-> NoUrl]]
  /\ speechState = EmptySpeech
  /\ currentAudio = NoAudio
  /\ isMuted = FALSE
  /\ webSpeechSupported \in BOOLEAN
  /\ audios = [a \in AudioIds |-> FreeAudio]
  /\ utterances = [u \in UttIds |-> FreeUtt]
  /\ pending = [q \in PendIds |-> FreePend]
  /\ pool = OnePool
  /\ user \in BOOLEAN
  /\ imageGenerating = {}
  /\ generatedImages = {}
  /\ toast = {}
  /\ ttsLog = NoLog
  /\ op = Op("init", NoMsg)
  /\ NoTurns
  /\ NoStt

NextImage ==
  \/ \E m \in Msgs : HandleReadAloud(m)
  \/ StopButton
  \/ ToggleMute
  \/ \E q \in PendIds : Resolve(q)
  \/ \E a \in AudioIds : AudioTick(a)
  \/ \E a \in AudioIds : AudioEnded(a)
  \/ \E a \in AudioIds : AudioError(a)
  \/ \E u \in UttIds : UttTick(u)
  \/ \E u \in UttIds : UttEnd(u)
  \/ \E m \in Msgs : HandleGenerateImage(m)
  \/ \E m \in Msgs : ImageSettle(m)

SpecImage == InitImage /\ [][NextImage]_vars


\* ------------------------------------------------- conversation turns
\* '1 file(s) selected'
ToastFileSelected ==
  <<"1", " ", "f", "i", "l", "e", "(", "s", ")", " ", "s", "e", "l", "e", "c", "t", "e", "d">>

\* 'Failed to create conversation'
ToastNoConversation ==
  <<"F", "a", "i", "l", "e", "d", " ", "t", "o", " ", "c", "r", "e", "a", "t", "e", " ", "c",
    "o", "n", "v", "e", "r", "s", "a", "t", "i", "o", "n">>

\* the steps of this part leave narration, images and speech-to-text alone
TurnFrame == UNCHANGED <<speechVars, op, user, sttVars, voice, backend, turnLimit>>

\* the guard of sendQuestion (Questions.tsx:290), also the disabled condition
\* of the Send button (:1241)
CanSend == ~((Trim(inputText) = <<>> /\ selectedFiles = <<>>) \/ isProcessing)

\* the input box (Questions.tsx:1188), disabled while isProcessing
TypeText(text) ==
  /\ ~isProcessing
  /\ text # inputText
  /\ inputText' = text
  /\ toastText' = <<>>
  /\ TurnFrame
  /\ UNCHANGED <<messageList, selectedFiles, isProcessing, currentConversationId,
                 conversationPending, turns, aiRequest>>

\* handleFileSelect (Questions.tsx:857-861), one file chosen that is not
\* selected yet
HandleFileSelect(file) ==
  /\ Len(selectedFiles) < MaxFiles
  /\ \A i \in 1..Len(selectedFiles) : selectedFiles[i] # file
  /\ selectedFiles' = Append(selectedFiles, file)
  /\ toastText' = ToastFileSelected
  /\ TurnFrame
  /\ UNCHANGED <<messageList, inputText, isProcessing, currentConversationId,
                 conversationPending, turns, aiRequest>>

\* removeFile (Questions.tsx:863-865)
RemoveFile(index) ==
  /\ index \in 1..Len(selectedFiles)
  /\ selectedFiles' = SubSeq(selectedFiles, 1, index - 1)
                        \o SubSeq(selectedFiles, index + 1, Len(selectedFiles))
  /\ toastText' = <<>>
  /\ TurnFrame
  /\ UNCHANGED <<messageList, inputText, isProcessing, currentConversationId,
                 conversationPending, turns, aiRequest>>

\* lines 314-319 of sendQuestion: the input is cleared, isProcessing raised
Begin ==
  /\ inputText' = <<>>
  /\ selectedFiles' = <<>>
  /\ isProcessing' = TRUE

\* sendQuestion up to its first await (Questions.tsx:289-319): the user message
\* is appended; a signed-in user with a conversation awaits its persistence
\* before the input is cleared and isProcessing is raised
SendQuestion(t) ==
  /\ CanSend
  /\ t <= turnLimit
  /\ turns[t].phase = "free"
  /\ \A s \in TurnIds : s < t => turns[s].phase # "free"
  /\ LET persist == user /\ currentConversationId # NoConversation IN
     /\ messageList' = Append(messageList, UserMessage(t, Trim(inputText)))
     /\ turns' = [turns EXCEPT ![t] =
                    [phase |-> IF persist THEN "saving" ELSE "awaiting",
                     question |-> Trim(inputText), files |-> selectedFiles,
                     persist |-> persist, calls |-> 0, answer |-> NoAnswer,
                     outcome |-> Returned(<<>>)]]
     /\ IF persist THEN UNCHANGED <<inputText, selectedFiles, isProcessing>> ELSE Begin
  /\ toastText' = <<>>
  /\ TurnFrame
  /\ UNCHANGED <<currentConversationId, conversationPending, aiRequest>>

\* saveMessageToDatabase of the user message settles (Questions.tsx:305-319)
UserSaved(t) ==
  /\ turns[t].phase = "saving"
  /\ \E saved \in BOOLEAN :
       messageList' = IF saved THEN Rename(messageList, t, "user") ELSE messageList
  /\ Begin
  /\ turns' = [turns EXCEPT ![t].phase = "awaiting"]
  /\ toastText' = <<>>
  /\ TurnFrame
  /\ UNCHANGED <<currentConversationId, conversationPending, aiRequest>>

\* sendQuestion with a catch block that appends nothing and leaves
\* isProcessing as it is
Finish_SilentFailure(t, out) ==
  LET caught == sendQuestionCatch(out)
      saves  == out.ok /\ turns[t].persist
  IN
  /\ messageList' = IF out.ok THEN Append(messageList, AssistantMessage(t, out.text))
                    ELSE messageList
  /\ toastText' = IF out.ok THEN <<>> ELSE caught.toast
  /\ isProcessing' = IF out.ok /\ ~saves THEN FALSE ELSE isProcessing
  /\ turns' = [turns EXCEPT ![t].phase = IF saves THEN "savingReply" ELSE "done",
                            ![t].question = <<>>,
                            ![t].files = <<>>,
                            ![t].answer = NoAnswer,
                            ![t].outcome = out]

\* a sendQuestion that saves whatever assistant message it has appended
Finish_SaveErrors(t, out) ==
  LET caught == sendQuestionCatch(out)
      saves  == turns[t].persist
  IN
  /\ messageList' = Append(messageList,
                           AssistantMessage(t, IF out.ok THEN out.text ELSE caught.content))
  /\ toastText' = IF out.ok THEN <<>> ELSE caught.toast
  /\ isProcessing' = IF saves THEN isProcessing ELSE FALSE
  /\ turns' = [turns EXCEPT ![t].phase = IF saves THEN "savingReply" ELSE "done",
                            ![t].question = <<>>,
                            ![t].files = <<>>,
                            ![t].answer = NoAnswer,
                            ![t].outcome = out]

\* the end of a sendQuestion call: the assistant message is appended
\* (Questions.tsx:381 or :428); a response of a persisted turn is saved before
\* the finally block (:383-393), everything else reaches it at once (:429-431)
Finish(t, out) ==
  LET caught == sendQuestionCatch(out)
      saves  == out.ok /\ turns[t].persist
  IN
  /\ messageList' = Append(messageList,
                           AssistantMessage(t, IF out.ok THEN out.text ELSE caught.content))
  /\ toastText' = IF out.ok THEN <<>> ELSE caught.toast
  /\ isProcessing' = IF saves THEN isProcessing ELSE FALSE
  /\ turns' = [turns EXCEPT ![t].phase = IF saves THEN "savingReply" ELSE "done",
                            ![t].question = <<>>,
                            ![t].files = <<>>,
                            ![t].answer = NoAnswer,
                            ![t].outcome = out]

\* a file cannot be read: fileToBase64 rejects with the event of the reader
\* (Questions.tsx:281-288, 323-329), chat-completion is not invoked
FilesUnreadable(t) ==
  /\ turns[t].phase = "awaiting"
  /\ turns[t].files # <<>>
  /\ Finish(t, sendQuestionTry([data |-> NoData, error |-> <<>>], FALSE))
  /\ TurnFrame
  /\ UNCHANGED <<inputText, selectedFiles, currentConversationId, conversationPending,
                 aiRequest>>

\* supabase.functions.invoke('chat-completion') is called (Questions.tsx:332-342):
\* the request reaches the deployed handler, which builds the user content of
\* its request to the AI provider, or it does not reach it
Invoke(t) ==
  /\ turns[t].phase = "awaiting"
  /\ \E reached \in BOOLEAN :
       /\ aiRequest' = IF reached
                       THEN chatCompletion(backend, turns[t].question, turns[t].files,
                                           UpOk).request
                       ELSE NoRequest
       /\ turns' = [turns EXCEPT ![t].phase = IF reached THEN "invoked" ELSE "unreached",
                                 ![t].calls = @ + 1]
  /\ toastText' = <<>>
  /\ TurnFrame
  /\ UNCHANGED <<messageList, inputText, selectedFiles, isProcessing,
                 currentConversationId, conversationPending>>

\* the deployed handler serves the request: it asks the AI provider and
\* answers with a status and a JSON body
RespondWith(t, upstreams) ==
  /\ turns[t].phase = "invoked"
  /\ \E up \in upstreams :
       LET answer == chatCompletion(backend, turns[t].question, turns[t].files, up) IN
       turns' = [turns EXCEPT ![t].phase = "answered",
                              ![t].answer = [status |-> answer.status, body |-> answer.body]]
  /\ toastText' = <<>>
  /\ TurnFrame
  /\ UNCHANGED <<messageList, inputText, selectedFiles, isProcessing,
                 currentConversationId, conversationPending, aiRequest>>

Respond(t) == RespondWith(t, Upstreams)

\* the invoke call settles and sendQuestion runs to its end or to the await of
\* the assistant message's persistence (Questions.tsx:343-431)
Settle(t) ==
  /\ turns[t].phase \in {"answered", "unreached"}
  /\ LET transport == IF turns[t].phase = "unreached" THEN "fetchFailed" ELSE "ok"
     IN Finish(t, sendQuestionTry(invoke(turns[t].answer, transport), TRUE))
  /\ aiRequest' = NoRequest
  /\ TurnFrame
  /\ UNCHANGED <<inputText, selectedFiles, currentConversationId, conversationPending>>

\* saveMessageToDatabase of the assistant message settles (Questions.tsx:383-393,
\* then the finally block :429-431)
ReplySaved(t) ==
  /\ turns[t].phase = "savingReply"
  /\ \E saved \in BOOLEAN :
       messageList' = IF saved THEN Rename(messageList, t, "assistant") ELSE messageList
  /\ isProcessing' = FALSE
  /\ turns' = [turns EXCEPT ![t].phase = "done"]
  /\ toastText' = <<>>
  /\ TurnFrame
  /\ UNCHANGED <<inputText, selectedFiles, currentConversationId, conversationPending,
                 aiRequest>>

\* the insert of createNewConversation settles (Questions.tsx:123-144)
ConversationCreated ==
  /\ conversationPending
  /\ conversationPending' = FALSE
  /\ \E inserted \in BOOLEAN :
       IF inserted
       THEN /\ currentConversationId' = TheConversation
            /\ messageList' = <<>>
            /\ toastText' = <<>>
       ELSE /\ toastText' = ToastNoConversation
            /\ UNCHANGED <<currentConversationId, messageList>>
  /\ TurnFrame
  /\ UNCHANGED <<inputText, selectedFiles, isProcessing, turns, aiRequest>>

\* the page after mounting: with a signed-in user the effect of
\* Questions.tsx:113-121 has called createNewConversation. A behaviour asks
\* one question of any of the handlers, or up to MaxTurns of the Gemini one
InitTurn ==
  /\ content = [m \in Msgs |-> IF m = 1 THEN Good1 ELSE Good2]
  /\ messages = [m \in Msgs |-> [isPlaying |-> FALSE, audioUrl |-> NoUrl]]
  /\ speechState = EmptySpeech
  /\ currentAudio = NoAudio
  /\ isMuted = FALSE
  /\ webSpeechSupported = TRUE
  /\ audios = [a \in AudioIds |-> FreeAudio]
  /\ utterances = [u \in UttIds |-> FreeUtt]
  /\ pending = [q \in PendIds |-> FreePend]
  /\ pool = OnePool
  /\ imageGenerating = {}
  /\ generatedImages = {}
  /\ toast = {}
  /\ ttsLog = NoLog
  /\ op = Op("init", NoMsg)
  /\ user \in BOOLEAN
  /\ messageList = <<>>
  /\ inputText = <<>>
  /\ selectedFiles = <<>>
  /\ isProcessing = FALSE
  /\ currentConversationId = NoConversation
  /\ conversationPending = user
  /\ turns = [t \in TurnIds |-> FreeTurn]
  /\ \/ backend \in Handlers /\ turnLimit = 1
     \/ backend = "gemini" /\ turnLimit = MaxTurns
  /\ aiRequest = NoRequest
  /\ toastText = <<>>
  /\ NoStt

NextTurn ==
  \/ \E text \in InputTexts : TypeText(text)
  \/ \E file \in Files : HandleFileSelect(file)
  \/ \E index \in 1..MaxFiles : RemoveFile(index)
  \/ \E t \in TurnIds : SendQuestion(t)
  \/ \E t \in TurnIds : UserSaved(t)
  \/ \E t \in TurnIds : FilesUnreadable(t)
  \/ \E t \in TurnIds : Invoke(t)
  \/ \E t \in TurnIds : Respond(t)
  \/ \E t \in TurnIds : Settle(t)
  \/ \E t \in TurnIds : ReplySaved(t)
  \/ ConversationCreated

SpecTurn == InitTurn /\ [][NextTurn]_vars


\* --------------------------------------------- speech-to-text function
\* the responses of the handler (speech-to-text/index.ts:144-157)
TextResponse(text) == [status |-> 200, kind |-> "text", text |-> text]
ErrorResponse(message) == [status |-> 500, kind |-> "error", text |-> message]

\* the steps of the function leave the page alone
SttFrame == UNCHANGED <<speechVars, op, user, turnVars, voice>>

\* the catch block (:149-158): the error becomes the response
SttThrow(message) ==
  /\ sttPc' = "done"
  /\ sttResponse' = ErrorResponse(message)

\* a request arrives (:41-57), with or without audio, the key configured or not
SttRequest(audio, key) ==
  /\ sttPc = "idle"
  /\ IF ~audio THEN SttThrow("No audio data provided")
     ELSE IF ~key THEN SttThrow("AssemblyAI API key not configured")
     ELSE sttPc' = "upload" /\ UNCHANGED sttResponse
  /\ UNCHANGED <<attempts, polls, transcript>>
  /\ SttFrame

\* the upload of the audio settles (:63-79)
SttUpload(ok) ==
  /\ sttPc = "upload"
  /\ IF ok THEN sttPc' = "submit" /\ UNCHANGED sttResponse
     ELSE SttThrow("AssemblyAI upload error")
  /\ UNCHANGED <<attempts, polls, transcript>>
  /\ SttFrame

\* the transcription request settles (:84-103); the loop starts with
\* attempts = 0 (:109)
SttSubmit(ok) ==
  /\ sttPc = "submit"
  /\ IF ok THEN sttPc' = "poll" /\ UNCHANGED sttResponse
     ELSE SttThrow("AssemblyAI transcript error")
  /\ attempts' = 0
  /\ UNCHANGED <<polls, transcript>>
  /\ SttFrame

\* what a status poll can give: the fetch throws, the answer is not OK, or
\* it is a transcript with a status, a completed one with or without text
PollOutcomes ==
  {"throws", "notOk", "queued", "processing", "completed", "completedNoText", "error"}

\* one pass of the loop up to its wait (:112-135): the status is fetched; a
\* completed transcript leaves the loop and is answered (:142-147)
SttPoll(outcome) ==
  /\ sttPc = "poll"
  /\ attempts < maxAttempts
  /\ polls' = polls + 1
  /\ IF outcome = "throws" THEN SttThrow("fetch failed") /\ UNCHANGED transcript
     ELSE IF outcome = "notOk" THEN SttThrow("AssemblyAI poll error") /\ UNCHANGED transcript
     ELSE IF outcome \in {"completed", "completedNoText"}
     THEN /\ transcript' = "completed"
          /\ sttPc' = "done"
          /\ sttResponse' = IF attempts >= maxAttempts
                            THEN ErrorResponse("Transcription timeout - please try again")
                            ELSE TextResponse(IF outcome = "completed" THEN "hello" ELSE "")
     ELSE IF outcome = "error"
     THEN transcript' = "error" /\ SttThrow("Transcription failed")
     ELSE transcript' = outcome /\ sttPc' = "wait" /\ UNCHANGED sttResponse
  /\ UNCHANGED attempts
  /\ SttFrame

\* the loop with a wait that does not count the attempt
SttWait_NoCount ==
  /\ sttPc = "wait"
  /\ sttPc' = "poll"
  /\ UNCHANGED <<attempts, polls, transcript, sttResponse>>
  /\ SttFrame

\* the one-second wait is over (:137-139)
SttWait ==
  /\ sttPc = "wait"
  /\ attempts' = attempts + 1
  /\ sttPc' = "poll"
  /\ UNCHANGED <<polls, transcript, sttResponse>>
  /\ SttFrame

\* the loop ends without a completed transcript (:112, :142-144)
SttTimeout ==
  /\ sttPc = "poll"
  /\ ~(attempts < maxAttempts)
  /\ attempts >= maxAttempts
  /\ SttThrow("Transcription timeout - please try again")
  /\ UNCHANGED <<attempts, polls, transcript>>
  /\ SttFrame

InitPoll ==
  /\ content = [m \in Msgs |-> IF m = 1 THEN Good1 ELSE Good2]
  /\ messages = [m \in Msgs |-> [isPlaying |-> FALSE, audioUrl |-> NoUrl]]
  /\ speechState = EmptySpeech
  /\ currentAudio = NoAudio
  /\ isMuted = FALSE
  /\ webSpeechSupported = TRUE
  /\ audios = [a \in AudioIds |-> FreeAudio]
  /\ utterances = [u \in UttIds |-> FreeUtt]
  /\ pending = [q \in PendIds |-> FreePend]
  /\ pool = OnePool
  /\ user = TRUE
  /\ imageGenerating = {}
  /\ generatedImages = {}
  /\ toast = {}
  /\ ttsLog = NoLog
  /\ op = Op("init", NoMsg)
  /\ NoTurns
  /\ NoStt

NextPoll ==
  \/ \E audio, key \in BOOLEAN : SttRequest(audio, key)
  \/ \E ok \in BOOLEAN : SttUpload(ok)
  \/ \E ok \in BOOLEAN : SttSubmit(ok)
  \/ \E outcome \in PollOutcomes : SttPoll(outcome)
  \/ SttWait
  \/ SttTimeout

\* every await of the loop settles: the fetch answers or throws, the timer fires
PollFairness ==
  /\ WF_vars(\E outcome \in PollOutcomes : SttPoll(outcome))
  /\ WF_vars(SttWait)
  /\ WF_vars(SttTimeout)

SpecPoll == InitPoll /\ [][NextPoll]_vars /\ PollFairness

\* ----------------------------------------------------------- voice input
\* 'Recording started. Speak your question!'
ToastRecording ==
  <<"R", "e", "c", "o", "r", "d", "i", "n", "g", " ", "s", "t", "a", "r", "t", "e", "d", ".",
    " ", "S", "p", "e", "a", "k", " ", "y", "o", "u", "r", " ", "q", "u", "e", "s", "t", "i",
    "o", "n", "!">>

\* 'Failed to access microphone'
ToastNoMicrophone ==
  <<"F", "a", "i", "l", "e", "d", " ", "t", "o", " ", "a", "c", "c", "e", "s", "s", " ", "m",
    "i", "c", "r", "o", "p", "h", "o", "n", "e">>

\* 'Voice transcribed! You can edit and send the message.'
ToastTranscribed ==
  <<"V", "o", "i", "c", "e", " ", "t", "r", "a", "n", "s", "c", "r", "i", "b", "e", "d", "!",
    " ", "Y", "o", "u", " ", "c", "a", "n", " ", "e", "d", "i", "t", " ", "a", "n", "d", " ",
    "s", "e", "n", "d", " ", "t", "h", "e", " ", "m", "e", "s", "s", "a", "g", "e", ".">>

\* 'No speech detected. Please try again.'
ToastNoSpeech ==
  <<"N", "o", " ", "s", "p", "e", "e", "c", "h", " ", "d", "e", "t", "e", "c", "t", "e", "d",
    ".", " ", "P", "l", "e", "a", "s", "e", " ", "t", "r", "y", " ", "a", "g", "a", "i", "n",
    ".">>

\* 'Failed to process voice input'
ToastVoiceFailed ==
  <<"F", "a", "i", "l", "e", "d", " ", "t", "o", " ", "p", "r", "o", "c", "e", "s", "s", " ",
    "v", "o", "i", "c", "e", " ", "i", "n", "p", "u", "t">>

\* 'Transcription timeout'
MsgTimeout ==
  <<"T", "r", "a", "n", "s", "c", "r", "i", "p", "t", "i", "o", "n", " ", "t", "i", "m", "e",
    "o", "u", "t">>

\* a 200 response of speech-to-text whose text is null
NoText == <<"null">>

\* the responses of speech-to-text that stopRecording distinguishes
VoiceResponses ==
  {TextResponse(TextHi), TextResponse(TextBlank), TextResponse(NoText),
   ErrorResponse(MsgTimeout)}

\* the steps of voice input leave narration, images, the turns and the
\* speech-to-text function alone
VoiceFrame ==
  UNCHANGED <<speechVars, op, user, sttVars, backend, turnLimit, messageList, selectedFiles,
              currentConversationId, conversationPending, turns, aiRequest>>

\* startRecording (Questions.tsx:234-244); the microphone button is disabled
\* while isProcessing (:1231)
StartRecording(granted) ==
  /\ ~isProcessing
  /\ ~voice.isRecording
  /\ voice.phase = "idle"
  /\ voice' = [voice EXCEPT !.isRecording = granted]
  /\ toastText' = IF granted THEN ToastRecording ELSE ToastNoMicrophone
  /\ UNCHANGED <<inputText, isProcessing>>
  /\ VoiceFrame

\* stopRecording up to its first await (Questions.tsx:245-250)
StopRecording ==
  /\ ~isProcessing
  /\ voice.isRecording
  /\ voice' = [isRecording |-> FALSE, phase |-> "stopping"]
  /\ isProcessing' = TRUE
  /\ toastText' = <<>>
  /\ UNCHANGED inputText
  /\ VoiceFrame

\* the catch and finally blocks of stopRecording (:272-278)
VoiceCatch ==
  /\ voice' = [voice EXCEPT !.phase = "idle"]
  /\ isProcessing' = FALSE
  /\ toastText' = ToastVoiceFailed
  /\ UNCHANGED inputText

\* recorder.stop() settles (:250)
RecorderStopped(ok) ==
  /\ voice.phase = "stopping"
  /\ IF ok
     THEN /\ voice' = [voice EXCEPT !.phase = "encoding"]
          /\ toastText' = <<>>
          /\ UNCHANGED <<inputText, isProcessing>>
     ELSE VoiceCatch
  /\ VoiceFrame

\* blobToBase64 settles (:251)
BlobEncoded(ok) ==
  /\ voice.phase = "encoding"
  /\ IF ok
     THEN /\ voice' = [voice EXCEPT !.phase = "invoking"]
          /\ toastText' = <<>>
          /\ UNCHANGED <<inputText, isProcessing>>
     ELSE VoiceCatch
  /\ VoiceFrame

\* a transcription that returns without lowering isProcessing
Transcribed_NoFinally(response, transport) ==
  /\ voice.phase = "invoking"
  /\ IF transport # "ok" \/ response.status # 200 \/ response.text = NoText
     THEN /\ voice' = [voice EXCEPT !.phase = "idle"]
          /\ toastText' = ToastVoiceFailed
          /\ UNCHANGED <<inputText, isProcessing>>
     ELSE /\ voice' = [voice EXCEPT !.phase = "idle"]
          /\ isProcessing' = FALSE
          /\ IF Trim(response.text) # <<>>
             THEN inputText' = Trim(response.text) /\ toastText' = ToastTranscribed
             ELSE toastText' = ToastNoSpeech /\ UNCHANGED inputText
  /\ VoiceFrame

\* the invocation of speech-to-text settles and stopRecording runs to its
\* end (:254-278): a thrown invoke, a returned error and a text that is not a
\* string all end in the catch block
Transcribed(response, transport) ==
  /\ voice.phase = "invoking"
  /\ IF transport # "ok" \/ response.status # 200 \/ response.text = NoText
     THEN VoiceCatch
     ELSE /\ voice' = [voice EXCEPT !.phase = "idle"]
          /\ isProcessing' = FALSE
          /\ IF Trim(response.text) # <<>>
             THEN inputText' = Trim(response.text) /\ toastText' = ToastTranscribed
             ELSE toastText' = ToastNoSpeech /\ UNCHANGED inputText
  /\ VoiceFrame

\* the AI provider answers, answers with a body of another shape, refuses with
\* a rate limit, or cannot be reached
UpstreamsIdle == {UpOk, UpMalformed, UpThrows, UpError(429, UpRate, RetryN)}

RespondIdle(t) == RespondWith(t, UpstreamsIdle)

\* the awaits of a turn, and those of a transcription
TurnSettles ==
  \E t \in TurnIds :
    \/ UserSaved(t)
    \/ FilesUnreadable(t)
    \/ Invoke(t)
    \/ RespondIdle(t)
    \/ Settle(t)
    \/ ReplySaved(t)

VoiceSettles ==
  \/ \E ok \in BOOLEAN : RecorderStopped(ok)
  \/ \E ok \in BOOLEAN : BlobEncoded(ok)
  \/ \E response \in VoiceResponses, transport \in Transports : Transcribed(response, transport)

InitIdle ==
  /\ InitTurn
  /\ backend = "gemini"
  /\ turnLimit = 1

NextIdle ==
  \/ \E text \in InputTexts : TypeText(text)
  \/ \E file \in Files : HandleFileSelect(file)
  \/ \E index \in 1..MaxFiles : RemoveFile(index)
  \/ \E t \in TurnIds : SendQuestion(t)
  \/ \E t \in TurnIds : UserSaved(t)
  \/ \E t \in TurnIds : FilesUnreadable(t)
  \/ \E t \in TurnIds : Invoke(t)
  \/ \E t \in TurnIds : RespondIdle(t)
  \/ \E t \in TurnIds : Settle(t)
  \/ \E t \in TurnIds : ReplySaved(t)
  \/ ConversationCreated
  \/ \E granted \in BOOLEAN : StartRecording(granted)
  \/ StopRecording
  \/ \E ok \in BOOLEAN : RecorderStopped(ok)
  \/ \E ok \in BOOLEAN : BlobEncoded(ok)
  \/ \E response \in VoiceResponses, transport \in Transports : Transcribed(response, transport)

\* every awaited collaborator settles: the inserts, the file readers, the two
\* edge functions, the recorder
IdleFairness ==
  /\ WF_vars(TurnSettles)
  /\ WF_vars(VoiceSettles)

SpecIdle == InitIdle /\ [][NextIdle]_vars /\ IdleFairness

\* ------------------------------------- narration of the error messages
\* The turn model above keeps the heading of each error message
\* (ContentRate, ...); the texts of the source go on after the heading.
\* the text of Questions.tsx:404 after its heading
TailRate ==
  <<"\n", "\n", "T", "h", "e", " ", "G", "o", "o", "g", "l", "e", " ", "G", "e", "m", "i",
    "n", "i", " ", "A", "P", "I", " ", "i", "s", " ", "e", "x", "p", "e", "r", "i", "e", "n",
    "c", "i", "n", "g", " ", "h", "i", "g", "h", " ", "d", "e", "m", "a", "n", "d", ".", " ",
    "H", "e", "r", "e", " ", "a", "r", "e", " ", "y", "o", "u", "r", " ", "o", "p", "t", "i",
    "o", "n", "s", ":", "\n", "\n", "1", ".", " ", "*", "*", "T", "r", "y", " ", "a", "g",
    "a", "i", "n", " ", "i", "n", " ", "a", " ", "f", "e", "w", " ", "m", "i", "n", "u", "t",
    "e", "s", "*", "*", " ", "-", " ", "r", "a", "t", "e", " ", "l", "i", "m", "i", "t", "s",
    " ", "u", "s", "u", "a", "l", "l", "y", " ", "r", "e", "s", "e", "t", " ", "q", "u", "i",
    "c", "k", "l", "y", "\n", "2", ".", " ", "*", "*", "C", "h", "e", "c", "k", " ", "y",
    "o", "u", "r", " ", "G", "o", "o", "g", "l", "e", " ", "C", "l", "o", "u", "d", " ", "C",
    "o", "n", "s", "o", "l", "e", "*", "*", " ", "a", "t", " ", "[", "c", "o", "n", "s", "o",
    "l", "e", ".", "c", "l", "o", "u", "d", ".", "g", "o", "o", "g", "l", "e", ".", "c", "o",
    "m", "]", "(", "h", "t", "t", "p", "s", ":", "/", "/", "c", "o", "n", "s", "o", "l", "e",
    ".", "c", "l", "o", "u", "d", ".", "g", "o", "o", "g", "l", "e", ".", "c", "o", "m", ")",
    "\n", "3", ".", " ", "*", "*", "C", "o", "n", "s", "i", "d", "e", "r", " ", "u", "p",
    "g", "r", "a", "d", "i", "n", "g", " ", "y", "o", "u", "r", " ", "q", "u", "o", "t", "a",
    "*", "*", " ", "f", "o", "r", " ", "h", "i", "g", "h", "e", "r", " ", "l", "i", "m", "i",
    "t", "s", "\n", "4", ".", " ", "*", "*", "W", "a", "i", "t", " ", "f", "o", "r", " ",
    "a", "u", "t", "o", "m", "a", "t", "i", "c", " ", "r", "e", "s", "e", "t", "*", "*", " ",
    "-", " ", "m", "o", "s", "t", " ", "l", "i", "m", "i", "t", "s", " ", "r", "e", "s", "e",
    "t", " ", "d", "a", "i", "l", "y", "\n", "\n", "G", "e", "m", "i", "n", "i", " ", "h",
    "a", "s", " ", "g", "e", "n", "e", "r", "o", "u", "s", " ", "f", "r", "e", "e", " ", "t",
    "i", "e", "r", " ", "l", "i", "m", "i", "t", "s", " ", "t", "h", "a", "t", " ", "s", "h",
    "o", "u", "l", "d", " ", "h", "a", "n", "d", "l", "e", " ", "m", "o", "s", "t", " ", "u",
    "s", "a", "g", "e", ".">>

\* the text of Questions.tsx:407 after its heading
TailQuota ==
  <<"\n", "\n", "Y", "o", "u", "r", " ", "G", "o", "o", "g", "l", "e", " ", "A", "P", "I",
    " ", "a", "c", "c", "o", "u", "n", "t", " ", "n", "e", "e", "d", "s", " ", "a", "t", "t",
    "e", "n", "t", "i", "o", "n", ":", "\n", "\n", "1", ".", " ", "*", "*", "V", "i", "s",
    "i", "t", "*", "*", ":", " ", "[", "G", "o", "o", "g", "l", "e", " ", "C", "l", "o", "u",
    "d", " ", "C", "o", "n", "s", "o", "l", "e", "]", "(", "h", "t", "t", "p", "s", ":", "/",
    "/", "c", "o", "n", "s", "o", "l", "e", ".", "c", "l", "o", "u", "d", ".", "g", "o", "o",
    "g", "l", "e", ".", "c", "o", "m", ")", "\n", "2", ".", " ", "*", "*", "C", "h", "e",
    "c", "k", " ", "y", "o", "u", "r", " ", "A", "P", "I", " ", "q", "u", "o", "t", "a", "s",
    "*", "*", " ", "a", "n", "d", " ", "b", "i", "l", "l", "i", "n", "g", "\n", "3", ".",
    " ", "*", "*", "E", "n", "a", "b", "l", "e", " ", "b", "i", "l", "l", "i", "n", "g", "*",
    "*", " ", "o", "r", " ", "*", "*", "i", "n", "c", "r", "e", "a", "s", "e", " ", "q", "u",
    "o", "t", "a", "s", "*", "*", " ", "i", "f", " ", "n", "e", "e", "d", "e", "d", "\n",
    "\n", "G", "e", "m", "i", "n", "i", " ", "o", "f", "f", "e", "r", "s", " ", "a", " ",
    "g", "e", "n", "e", "r", "o", "u", "s", " ", "f", "r", "e", "e", " ", "t", "i", "e", "r",
    " ", "f", "o", "r", " ", "n", "e", "w", " ", "u", "s", "e", "r", "s", ".">>

\* the text of Questions.tsx:410 after its heading
TailKey ==
  <<"\n", "\n", "T", "h", "e", "r", "e", "'", "s", " ", "a", "n", " ", "i", "s", "s", "u",
    "e", " ", "w", "i", "t", "h", " ", "t", "h", "e", " ", "G", "e", "m", "i", "n", "i", " ",
    "A", "P", "I", " ", "c", "o", "n", "f", "i", "g", "u", "r", "a", "t", "i", "o", "n", ".",
    " ", "P", "l", "e", "a", "s", "e", " ", "c", "o", "n", "t", "a", "c", "t", " ", "s", "u",
    "p", "p", "o", "r", "t", ".">>

\* the text of Questions.tsx:413 after its heading
TailNon2xx ==
  <<"\n", "\n", "O", "u", "r", " ", "A", "I", " ", "s", "e", "r", "v", "i", "c", "e", " ",
    "i", "s", " ", "e", "x", "p", "e", "r", "i", "e", "n", "c", "i", "n", "g", " ", "h", "i",
    "g", "h", " ", "d", "e", "m", "a", "n", "d", ".", " ", "T", "h", "i", "s", " ", "i", "s",
    " ", "l", "i", "k", "e", "l", "y", " ", "d", "u", "e", " ", "t", "o", ":", "\n", "\n",
    "-", " ", "G", "e", "m", "i", "n", "i", " ", "A", "P", "I", " ", "r", "a", "t", "e", " ",
    "l", "i", "m", "i", "t", "i", "n", "g", "\n", "-", " ", "H", "i", "g", "h", " ", "s",
    "e", "r", "v", "e", "r", " ", "l", "o", "a", "d", "\n", "-", " ", "T", "e", "m", "p",
    "o", "r", "a", "r", "y", " ", "s", "e", "r", "v", "i", "c", "e", " ", "i", "n", "t", "e",
    "r", "r", "u", "p", "t", "i", "o", "n", "\n", "\n", "P", "l", "e", "a", "s", "e", " ",
    "*", "*", "t", "r", "y", " ", "a", "g", "a", "i", "n", " ", "i", "n", " ", "a", " ", "f",
    "e", "w", " ", "m", "i", "n", "u", "t", "e", "s", "*", "*", ".", " ", "G", "e", "m", "i",
    "n", "i", " ", "t", "y", "p", "i", "c", "a", "l", "l", "y", " ", "h", "a", "s", " ", "e",
    "x", "c", "e", "l", "l", "e", "n", "t", " ", "u", "p", "t", "i", "m", "e", " ", "a", "n",
    "d", " ", "g", "e", "n", "e", "r", "o", "u", "s", " ", "l", "i", "m", "i", "t", "s", ".">>

\* the pictogram in front of a heading: one character that is in no marker
Pictogram == <<"~", " ">>

\* the text of the assistant message of Questions.tsx:399-417 whose heading,
\* or whose whole text, is c
errorContent(c) ==
  IF c = ContentRate THEN Pictogram \o c \o TailRate
  ELSE IF c = ContentQuota THEN Pictogram \o c \o TailQuota
  ELSE IF c = ContentKey THEN Pictogram \o c \o TailKey
  ELSE IF c = ContentNon2xx THEN Pictogram \o c \o TailNon2xx
  ELSE IF StartsWith(c, PreErrorContent) THEN Pictogram \o c
  ELSE c

\* what the try block of sendQuestion can end with when the turn fails, for
\* each handler, answer of the AI provider and transport
Failures ==
  {ThrownOther} \cup
  {e \in {sendQuestionTry(invoke(LET a == chatCompletion(h, TextHi, <<>>, up)
                                 IN [status |-> a.status, body |-> a.body], tr), TRUE) :
            h \in Handlers, up \in Upstreams, tr \in Transports} : ~e.ok}

\* the error messages sendQuestion appends
ErrorMessages == {errorContent(sendQuestionCatch(e).content) : e \in Failures}

\* cleanTextForSpeech as modelled is the cleanTextForSpeech of the source on c:
\* c has no '_', '#', '[', no backtick and no bullet at the start of a line
Plain(c) ==
  \A i \in 1..Len(c) :
    /\ c[i] \notin {"_", "#", "[", BackTick}
    /\ ~(/\ c[i] \in {"-", "*", "+"}
         /\ (i = 1 \/ c[i - 1] = "\n")
         /\ i < Len(c)
         /\ c[i + 1] \in WS)

\* the error messages that startSpeech turns down, and those it would clean
\* as modelled
Narratable ==
  {c \in ErrorMessages : SpeechErrorMarker(c) \/ (Plain(c) /\ Len(c) <= MaxContent)}

\* a conversation whose second assistant message is an error message
InitErrors ==
  /\ content \in {[m \in Msgs |-> IF m = 1 THEN Good1 ELSE c] : c \in Narratable}
  /\ messages = [m \in Msgs |-> [isPlaying |-> FALSE, audioUrl |-> NoUrl]]
  /\ speechState = EmptySpeech
  /\ currentAudio = NoAudio
  /\ isMuted = FALSE
  /\ webSpeechSupported = TRUE
  /\ audios = [a \in AudioIds |-> FreeAudio]
  /\ utterances = [u \in UttIds |-> FreeUtt]
  /\ pending = [q \in PendIds |-> FreePend]
  /\ pool = OnePool
  /\ user = TRUE
  /\ imageGenerating = {}
  /\ generatedImages = {}
  /\ toast = {}
  /\ ttsLog = NoLog
  /\ op = Op("init", NoMsg)
  /\ NoTurns
  /\ NoStt

NextErrors ==
  \/ \E m \in Msgs : HandleReadAloud(m)
  \/ StopButton
  \/ \E q \in PendIds : ResolveOverlap(q)
  \/ \E a \in AudioIds : AudioEnded(a)
  \/ \E a \in AudioIds : AudioError(a)
  \/ \E u \in UttIds : UttEnd(u)

SpecErrors == InitErrors /\ [][NextErrors]_vars

\* ================================================================ claims
Playing == {m \in Msgs : messages[m].isPlaying}

\* steps that are not taken by the user: timers, media events, the
\* continuation of startSpeech
Callbacks == {"resolve", "audioTick", "audioEnded", "audioError",
              "uttTick", "uttEnd", "uttCancelled"}

\* steps that consist of one call of stopSpeech
StopOps == {"stop", "audioEnded", "audioError", "uttEnd", "uttCancelled"}

\* the message narrated through platform synthesis is the one speechState tracks
TracksWebSpeech ==
  speechState.messageId # NoMsg /\ messages[speechState.messageId].audioUrl = WebSpeech

\* C1: in every reachable state at most one Message has isPlaying = true.
C1_SingleFlight == Cardinality(Playing) <= 1

\* message 2 is being narrated after message 1 has been narrated
C1_Witness ==
  /\ messages[2].isPlaying
  /\ messages[1].audioUrl # NoUrl
  /\ speechState.messageId = 2

\* C2: handleReadAloud twice in a row on the narrated message: the first call
\* pauses the narration (messageId kept, isPaused set), nothing that happens
\* between the two calls ends the paused narration, and the second call
\* resumes that narration (messageId kept, the message playing, and no new
\* startSpeech request).
C2_PauseThenResume ==
  [][ /\ (op'.name = "pause" =>
            /\ speechState'.messageId = op'.msg
            /\ speechState'.isPaused
            /\ pending' = pending)
      /\ (speechState.messageId # NoMsg /\ speechState.isPaused /\ op'.name \in Callbacks =>
            /\ speechState'.messageId = speechState.messageId
            /\ speechState'.isPaused)
      /\ (op'.name = "resume" =>
            /\ speechState'.messageId = op'.msg
            /\ ~speechState'.isPaused
            /\ messages'[op'.msg].isPlaying
            /\ \A q \in PendIds : pending'[q].state = "waiting" => pending[q].state = "waiting")
    ]_vars

Rank(provider) == IF provider = "elevenlabs" THEN 1 ELSE 2

CallFailed(c) == c.result # "ok"

Attempts(provider) ==
  {i \in 1..Len(ttsLog.calls) :
     ttsLog.calls[i].provider = provider /\ ttsLog.calls[i].result # "nokey"}

\* C4: within one text-to-speech request each remote provider is called at
\* most once.
C4_AtMostOnce ==
  /\ Cardinality(Attempts("elevenlabs")) <= 1
  /\ Cardinality(Attempts("openai")) <= 1

\* the error toasts of the provider chain and of startSpeech
TtsErrorToasts ==
  {"TTS unavailable", "All audio services unavailable - continuing with text only", "Failed to generate speech"}

\* C5: an error of the provider chain is shown, and startSpeech ends in its
\* error branch, only when the remote request failed and platform synthesis
\* failed too; when any tier served the request no error is shown and the
\* message is narrated.
C5_NoEarlyError ==
  /\ toast \cap TtsErrorToasts # {} =>
       op.name = "resolve" /\ ttsLog.remote # "ok" /\ ttsLog.platform = "throws"
  /\ (op.name = "resolve" /\ (ttsLog.remote = "ok" \/ ttsLog.platform = "ok")) =>
       toast = {} /\ messages[op.msg].isPlaying

\* a remote provider failed, a later tier served the request, no toast
C5_Witness ==
  /\ op.name = "resolve"
  /\ \E i \in 1..Len(ttsLog.calls) : ttsLog.calls[i].result \in {"nonok", "throws"}
  /\ ttsLog.remote = "ok"
  /\ toast = {}
  /\ messages[op.msg].isPlaying

\* C6: for narration through platform synthesis, position does not decrease
\* at a progress tick while playing, and while the narration is paused no
\* callback changes position.
C6_PositionFrozen ==
  [][ /\ (TracksWebSpeech /\ ~speechState.isPaused /\ op'.name = "uttTick" =>
            speechState'.position >= speechState.position)
      /\ (TracksWebSpeech /\ speechState.isPaused /\ op'.name \in Callbacks =>
            speechState'.position = speechState.position)
    ]_vars

\* SpeechState is empty and no message is playing
Stopped(s) == s.ss = EmptySpeech /\ \A m \in Msgs : ~s.msgs[m].isPlaying

\* C7: every call of stopSpeech leaves speechState empty and isPlaying false
\* on every message, and calling it again, from the next render or from a
\* stale closure, leaves speechState and the messages as the first call did.
C7_StopResets ==
  [][ op'.name \in StopOps =>
        /\ Stopped(St')
        /\ \A c \in {currentAudio', NoAudio, DeadAudio} :
             LET once == stopSpeech(St', c) IN
             /\ ~once.err
             /\ once.ss = speechState' /\ once.msgs = messages'
             /\ \A d \in {once.cur, NoAudio, DeadAudio} :
                  LET twice == stopSpeech(once, d) IN
                  twice.ss = once.ss /\ twice.msgs = once.msgs
    ]_vars

\* stopSpeech has run from a playing, a paused, a loading and an idle state
C7_Witness ==
  /\ op.name \in StopOps
  /\ speechState = EmptySpeech
  /\ Playing = {}
  /\ messages[1].audioUrl = DataUrl
  /\ messages[2].audioUrl = WebSpeech

\* C8: a callback of the narration of another message than the one
\* speechState tracks changes neither speechState nor the isPlaying flag of
\* the tracked message.
C8_StaleHarmless ==
  [][ (op'.name \in Callbacks /\ speechState.messageId # NoMsg
         /\ op'.msg # speechState.messageId) =>
        /\ speechState' = speechState
        /\ messages'[speechState.messageId].isPlaying
             = messages[speechState.messageId].isPlaying
    ]_vars

\* the error-marker substrings: "Error:", "rate limit", "quota exceeded", "API key"
ErrorMarkers == {MarkError, MarkRate, MarkQuota, MarkKey}

\* the content is empty or carries an error marker
Rejected(c) == Trim(c) = <<>> \/ \E k \in ErrorMarkers : Includes(c, k)

CannotNarrateToasts ==
  {"No content available for text-to-speech", "Cannot generate audio for error messages"}

\* startSpeech was called on message op'.msg (the stopSpeech before it did not throw)
StartSpeechCalled == op'.name = "start" /\ webSpeechSupported

\* the step left what stopSpeech leaves: startSpeech changed nothing and no
\* request to a provider is pending for it
StartSpeechNoEffect == St' = stopSpeech(St, currentAudio)

\* no image exists or is being generated for a response with "rate limit"
NoImageForRateLimit ==
  \A m \in imageGenerating' \cup generatedImages' : ~Includes(content[m], MarkRate)

C10_MutedNoChange ==
  [][ (StartSpeechCalled /\ isMuted) =>
        /\ StartSpeechNoEffect
        /\ toast' = {"Audio is muted. Unmute to hear the response."}
    ]_vars

\* startSpeech was called muted on a message that could be narrated, while
\* another narration was going on
C10_Witness ==
  /\ op.name = "start"
  /\ isMuted
  /\ ~Rejected(content[op.msg])
  /\ toast = {"Audio is muted. Unmute to hear the response."}
  /\ messages[1].audioUrl # NoUrl
  /\ speechState = EmptySpeech

\* the last request found every tier failed: the remote request failed and
\* platform synthesis is not there
AllTiersFailed(log) == log.remote \in {"error", "throws"} /\ log.platform = "throws"

C12_TrackedWhilePlaying ==
  \A u \in UttIds :
    utterances[u].state = "speaking" =>
      /\ speechState.messageId = utterances[u].msg
      /\ ~speechState.isPaused
      /\ ~speechState.isLoading

\* C15: when speechState tracks a message, that message is playing if and
\* only if speechState is not paused.
C15_PlayingIffNotPaused ==
  speechState.messageId # NoMsg =>
    (messages[speechState.messageId].isPlaying <=> ~speechState.isPaused)

\* a sendQuestion call that has passed its guard and has not finished
InFlight(t) == turns[t].phase \notin {"free", "done"}

\* C13: while a sendQuestion call is in flight (from its user message to its
\* end, the await of the user message's persistence included), no other
\* sendQuestion call passes the guard: no step starts a second turn.
C13_TurnsExclusive ==
  [][ (\E s \in TurnIds : InFlight(s)) =>
        \A t \in TurnIds : turns[t].phase = "free" => turns'[t].phase = "free" ]_vars

\* the phases of a sendQuestion call: Idle (free, done), Sending (saving),
\* AwaitingAIResponse (awaiting, invoked, unreached, answered), Success with
\* its persistence (savingReply)
Awaiting == {"awaiting", "invoked", "unreached", "answered"}

TurnOrder ==
  {<<"free", "saving">>, <<"free", "awaiting">>, <<"saving", "awaiting">>,
   <<"awaiting", "invoked">>, <<"awaiting", "unreached">>, <<"awaiting", "done">>,
   <<"invoked", "answered">>, <<"answered", "savingReply">>, <<"answered", "done">>,
   <<"unreached", "done">>,
   <<"savingReply", "done">>}

\* the step appends one message of turn t and of the role to the list
Appends(t, role) ==
  /\ Len(messageList') = Len(messageList) + 1
  /\ SubSeq(messageList', 1, Len(messageList)) = messageList
  /\ messageList'[Len(messageList')].turn = t
  /\ messageList'[Len(messageList')].role = role

ErrorContents ==
  {ContentGeneric, ContentRate, ContentQuota, ContentKey, ContentNon2xx}

\* C14: a sendQuestion call that passes its guard goes through Sending and
\* AwaitingAIResponse to Success or Failure and back to Idle: passing the guard
\* appends one user message, the end of the await of the response appends one
\* assistant message (the response, or an error message), no other step
\* appends anything, and the call ends with isProcessing = FALSE.
C14_TurnShape ==
  [][ /\ \A t \in TurnIds :
           LET before == turns[t].phase
               after  == turns'[t].phase
           IN
           /\ before # after => <<before, after>> \in TurnOrder
           /\ (before = "free" /\ after # "free") => Appends(t, "user")
           /\ (before \in Awaiting /\ after \in {"savingReply", "done"}) =>
                /\ Appends(t, "assistant")
                /\ LET reply == messageList'[Len(messageList')].content IN
                   IF after = "savingReply" \/ toastText' = <<>>
                   THEN reply = ResponseText
                   ELSE reply \in ErrorContents \/ StartsWith(reply, PreErrorContent)
           /\ (before # "done" /\ after = "done") => ~isProcessing'
      /\ Len(messageList') > Len(messageList) =>
           \E t \in TurnIds :
             \/ turns[t].phase = "free" /\ turns'[t].phase # "free"
             \/ turns[t].phase \in Awaiting /\ turns'[t].phase \in {"savingReply", "done"}
    ]_vars

\* two calls have ended, one with a response and one with an error message,
\* each after its own user message
C14_Witness ==
  /\ \A t \in TurnIds : turns[t].phase = "done"
  /\ ~isProcessing
  /\ Len(messageList) = 4
  /\ \E i, j \in 1..4 :
       /\ messageList[i].role = "assistant" /\ messageList[i].content = ResponseText
       /\ messageList[j].role = "assistant" /\ messageList[j].content \in ErrorContents
  /\ \A t \in TurnIds : \E i, j \in 1..4 :
       /\ i < j
       /\ messageList[i].turn = t /\ messageList[i].role = "user"
       /\ messageList[j].turn = t /\ messageList[j].role = "assistant"

\* C16: the message list is append-only: every message of the list is at the
\* same place of the list after every step, conversation creation included.
C16_AppendOnly ==
  [][ /\ Len(messageList') >= Len(messageList)
      /\ \A i \in 1..Len(messageList) :
           /\ messageList'[i].turn = messageList[i].turn
           /\ messageList'[i].role = messageList[i].role
           /\ messageList'[i].content = messageList[i].content
    ]_vars

\* the step ends the await of the response of call t with a failure
Fails(t) ==
  /\ turns[t].phase \in Awaiting
  /\ turns'[t].phase = "done"
  /\ ~turns'[t].outcome.ok

\* the assistant message and the toast of the step are the given ones
Shows(t, text, toastMessage) ==
  /\ Appends(t, "assistant")
  /\ messageList'[Len(messageList')].content = text
  /\ toastText' = toastMessage

IsRateLimit(e)  == Includes(e.text, SubRateReached) \/ Includes(e.text, SubRateExceeded)
IsQuota(e)      == Includes(e.text, SubQuota)
IsInvalidKey(e) == Includes(e.text, SubInvalidKey)
IsNon2xx(e)     == Includes(e.text, SubNon2xx)
Unmatched(e) ==
  e.isError /\ ~IsRateLimit(e) /\ ~IsQuota(e) /\ ~IsInvalidKey(e) /\ ~IsNon2xx(e)

\* the four classes, tested in this order, each with its own message and toast
KnownClasses(t, e) ==
  /\ IsRateLimit(e) => Shows(t, ContentRate, ToastRate)
  /\ ~IsRateLimit(e) /\ IsQuota(e) => Shows(t, ContentQuota, ToastQuota)
  /\ ~IsRateLimit(e) /\ ~IsQuota(e) /\ IsInvalidKey(e) => Shows(t, ContentKey, ToastKey)
  /\ ~IsRateLimit(e) /\ ~IsQuota(e) /\ ~IsInvalidKey(e) /\ IsNon2xx(e) =>
       Shows(t, ContentNon2xx, ToastNon2xx)

DistinctTexts ==
  /\ Cardinality({ContentRate, ContentQuota, ContentKey, ContentNon2xx, ContentGeneric}) = 5
  /\ Cardinality({ToastRate, ToastQuota, ToastKey, ToastNon2xx, ToastGeneric}) = 5

\* C17 as stated: the error text of a failed turn is classified by substring
\* in the order rate limit, quota, invalid key, non-2xx, each class with its
\* own message and toast, and an error matching none of them yields the
\* generic 'encountered an error' message.
C17_Original ==
  [][ \A t \in TurnIds : Fails(t) =>
        LET e == turns'[t].outcome IN
        /\ e.isError => KnownClasses(t, e)
        /\ Unmatched(e) \/ ~e.isError => Shows(t, ContentGeneric, ToastGeneric)
    ]_vars

\* C17 (amended): the classes and their order are as stated and their texts
\* are pairwise distinct; an Error matching none of them yields the message
\* '**Error**: ' followed by its text, with the text as toast; the generic
\* 'encountered an error' message is what a thrown value that is no Error, or
\* an Error without text, yields.
C17_Classified ==
  [][ \A t \in TurnIds : Fails(t) =>
        LET e == turns'[t].outcome IN
        /\ DistinctTexts
        /\ e.isError => KnownClasses(t, e)
        /\ Unmatched(e) /\ e.text # <<>> => Shows(t, PreErrorContent \o e.text, e.text)
        /\ ~e.isError \/ (Unmatched(e) /\ e.text = <<>>) =>
             Shows(t, ContentGeneric, ToastGeneric)
    ]_vars

\* a turn has failed with an error text that names both a rate limit and the
\* quota, and the rate-limit message is the one in the list
C17_Witness ==
  \E t \in TurnIds :
    /\ turns[t].phase = "done"
    /\ turns[t].outcome.isError
    /\ IsRateLimit(turns[t].outcome) /\ IsQuota(turns[t].outcome)
    /\ toastText = ToastRate
    /\ \E i \in 1..Len(messageList) :
         /\ messageList[i].turn = t
         /\ messageList[i].role = "assistant"
         /\ messageList[i].content = ContentRate

\* chat-completion has answered call t with a rate-limit failure that carries
\* a retry-after value
RateLimited(t) ==
  /\ turns[t].phase = "answered"
  /\ turns[t].answer.body.kind = "error"
  /\ turns[t].answer.body.type = "rate_limit"
  /\ turns[t].answer.body.retryAfter # <<>>

\* C18: when chat-completion answers with a rate-limit failure carrying
\* retryAfter = N, the step that takes the answer shows N in the appended
\* assistant message or in the toast, and the turn has made exactly one
\* chat-completion call.
C18_RetryAfterSurfaced ==
  [][ \A t \in TurnIds : RateLimited(t) /\ turns'[t].phase = "done" =>
        LET n == turns[t].answer.body.retryAfter IN
        /\ Appends(t, "assistant")
        /\ \/ Includes(messageList'[Len(messageList')].content, n)
           \/ Includes(toastText', n)
        /\ turns'[t].calls = 1
    ]_vars

\* the request built for the AI provider carries the file: an image as an
\* image part, any other file as a note with its name in a text part
Represented(file, request) ==
  IF IsImage(file)
  THEN \E i \in 1..Len(request) :
         request[i].kind = "image" /\ request[i].text = file.name
  ELSE \E i \in 1..Len(request) :
         request[i].kind = "text" /\ Includes(request[i].text, file.name)

\* C20: every attachment of a question that the handler forwards to the AI
\* provider is in the request: an image file as an inline image part, every
\* other file as a text note naming it.
C20_AttachmentsForwarded ==
  [][ \A t \in TurnIds :
        turns[t].phase = "awaiting" /\ turns'[t].phase = "invoked" /\ aiRequest' # NoRequest =>
          \A k \in 1..Len(turns[t].files) : Represented(turns[t].files[k], aiRequest')
    ]_vars

\* what holds of the poll loop in every state
PollLoopBounded ==
  /\ polls <= maxAttempts
  /\ attempts <= maxAttempts
  /\ transcript = "completed" =>
       sttPc = "done" /\ sttResponse.status = 200 /\ sttResponse.kind = "text"
  /\ transcript = "error" =>
       sttPc = "done" /\ sttResponse.status = 500 /\ sttResponse.kind = "error"
  /\ attempts = maxAttempts /\ sttPc = "done" =>
       /\ polls = maxAttempts
       /\ sttResponse = ErrorResponse("Transcription timeout - please try again")
  /\ sttPc = "done" => sttResponse.kind \in {"text", "error"}

\* C19: the poll loop of speech-to-text terminates: it polls at most 30 times,
\* a poll with status 'completed' ends it with the response {text} and one
\* with status 'error' ends it with a failure, and after 30 polls that are
\* neither it ends with the timeout failure as a 500 response with {error}.
C19_PollTerminates ==
  /\ []PollLoopBounded
  /\ (sttPc = "poll") ~> (sttPc = "done")

\* the loop has run out: 30 polls, none of them terminal, answered with the
\* timeout failure
C19_Witness ==
  /\ sttPc = "done"
  /\ polls = maxAttempts
  /\ attempts = maxAttempts
  /\ transcript \in {"queued", "processing"}
  /\ sttResponse = ErrorResponse("Transcription timeout - please try again")

\* the phases in which a call awaits saveMessageToDatabase
Writing == {"saving", "savingReply"}

\* the write condition of saveMessageToDatabase
CanPersist == user /\ currentConversationId # NoConversation

\* message i of the list becomes a persisted one in the step
Persists(i) ==
  /\ i <= Len(messageList')
  /\ messageList'[i].persisted
  /\ ~messageList[i].persisted

\* C21: a message is written to the persistence gateway only for a signed-in
\* user with a conversation; a call made under that condition writes its user
\* message, and on a response its assistant message; the error message of a
\* failed turn is never written.
C21_PersistedWhenAllowed ==
  [][ \A t \in TurnIds :
        LET before == turns[t].phase
            after  == turns'[t].phase
        IN
        /\ (before # after /\ after \in Writing) => CanPersist
        /\ (before = "free" /\ after # "free") => (after = "saving" <=> CanPersist)
        /\ (before \in Awaiting /\ after \in {"savingReply", "done"}) =>
             (after = "savingReply" <=> (turns'[t].outcome.ok /\ turns[t].persist))
        /\ \A i \in 1..Len(messageList) :
             (Persists(i) /\ messageList[i].turn = t) =>
               /\ CanPersist
               /\ before = (IF messageList[i].role = "user" THEN "saving" ELSE "savingReply")
               /\ messageList[i].content \notin ErrorContents
               /\ ~StartsWith(messageList[i].content, PreErrorContent)
    ]_vars

\* a signed-in user's turn has succeeded and both of its messages are
\* persisted, and the error message of a failed turn is in the list, not
\* persisted
C21_Witness ==
  /\ \A t \in TurnIds : turns[t].phase = "done"
  /\ Len(messageList) = 4
  /\ \E t \in TurnIds :
       /\ turns[t].outcome.ok
       /\ \A i \in 1..4 : messageList[i].turn = t => messageList[i].persisted
  /\ \E i \in 1..4 :
       /\ messageList[i].role = "assistant"
       /\ messageList[i].content \in ErrorContents
       /\ ~messageList[i].persisted

\* the step is a call of resumeSpeech on a paused narration
ResumeCalled == op'.name = "resume"

\* the narration resumed by the step is backed by an audio file
ResumesAudio == messages[speechState.messageId].audioUrl \notin {NoUrl, WebSpeech}

\* nothing but white space is left of the narrated text
NothingLeft == Trim(Substring(speechState.text, speechState.position)) = <<>>

\* after the step message m is narrated from position p by the backend
\* recorded on it
RestartedAt(m, p) ==
  /\ speechState'.position = p
  /\ ~speechState'.isPaused
  /\ messages'[m].isPlaying
  /\ IF ResumesAudio
     THEN /\ currentAudio' \in AudioIds
          /\ LET a == audios'[currentAudio'] IN
               a.state = "playing" /\ a.msg = m /\ a.start = p
     ELSE \E u \in UttIds :
            LET x == utterances'[u] IN
              x.state = "speaking" /\ x.msg = m /\ x.start = p

\* C22 as stated: resumeSpeech on a paused narration restarts the backend
\* recorded on the message at the stored position p; right after it
\* position = p, isPaused = false and the message is playing.
C22_Original ==
  [][ ResumeCalled => RestartedAt(speechState.messageId, speechState.position) ]_vars

\* C22: resumeSpeech on a paused narration restarts the backend recorded on
\* the message at the stored position p, with position = p, isPaused = false
\* and the message playing, unless platform synthesis has nothing but white
\* space left to speak: then the narration is stopped and speechState is
\* empty.
C22_ResumeAtPosition ==
  [][ ResumeCalled =>
        IF ~ResumesAudio /\ NothingLeft
        THEN /\ speechState' = EmptySpeech
             /\ \A m \in Msgs : ~messages'[m].isPlaying
        ELSE RestartedAt(speechState.messageId, speechState.position) ]_vars

\* platform synthesis has resumed in the middle of the text
C22_Witness ==
  /\ op.name = "resume"
  /\ speechState.position > 0
  /\ ~speechState.isPaused
  /\ messages[op.msg].audioUrl = WebSpeech
  /\ messages[op.msg].isPlaying
  /\ \E u \in UttIds : /\ utterances[u].state = "speaking"
                       /\ utterances[u].start = speechState.position

\* resumeSpeech has something to resume
Resumable == speechState.isPaused /\ speechState.messageId # NoMsg

\* C23: resumeSpeech called in a state that is not paused, or that tracks no
\* message, leaves speechState, the messages, the audio elements and the
\* utterances as they are.
C23_ResumeNoOp ==
  [][ (op'.name = "resumeSpeech" /\ ~Resumable) =>
        UNCHANGED <<speechState, messages, currentAudio, audios, utterances, pending>> ]_vars

\* resumeSpeech has been called during a playback that had already advanced,
\* and the playback goes on from where it was
C23_Witness ==
  /\ op.name = "resumeSpeech"
  /\ op.msg # NoMsg
  /\ ~speechState.isPaused
  /\ messages[op.msg].isPlaying
  /\ \E a \in AudioIds : audios[a].state = "playing" /\ audios[a].ticks > 0

\* the callbacks that report the end or the failure of a playback
EndOps == {"audioEnded", "audioError", "uttEnd", "uttCancelled"}

\* C24: when a playback ends or fails, on an audio element (onended,
\* onerror) or on an utterance (onend, onerror), speechState is left empty
\* and no message is left playing.
C24_EndResets ==
  [][ op'.name \in EndOps =>
        /\ speechState' = EmptySpeech
        /\ \A m \in Msgs : ~messages'[m].isPlaying
    ]_vars

\* the audio file of the narrated message has played to its end
C24_Witness ==
  /\ op.name = "audioEnded"
  /\ messages[op.msg].audioUrl = DataUrl
  /\ speechState = EmptySpeech
  /\ \A m \in Msgs : ~messages[m].isPlaying
  /\ \A a \in AudioIds : audios[a].state = "free"

\* C25: whenever isProcessing is true, in a turn or in a voice transcription,
\* it becomes false again, whatever the awaited inserts, file readers, edge
\* functions and recorder answer; and the step that ends a failed turn
\* appends an assistant error message, shows a toast and lowers isProcessing.
C25_ReturnsToIdle ==
  /\ isProcessing ~> ~isProcessing
  /\ [][ \A t \in TurnIds :
           (turns[t].phase # "done" /\ turns'[t].phase = "done" /\ ~turns'[t].outcome.ok) =>
             /\ Len(messageList') = Len(messageList) + 1
             /\ LET m == messageList'[Len(messageList')] IN
                  /\ m.role = "assistant"
                  /\ m.turn = t
                  /\ m.content \in ErrorContents \/ StartsWith(m.content, PreErrorContent)
             /\ toastText' # <<>>
             /\ ~isProcessing'
       ]_vars

\* a turn has failed and left its error message, a transcription has then
\* filled the input box, and the page is idle
C25_Witness ==
  /\ ~isProcessing
  /\ voice = NoVoice
  /\ toastText = ToastTranscribed
  /\ inputText = TextHi
  /\ \E t \in TurnIds : turns[t].phase = "done" /\ ~turns[t].outcome.ok
  /\ \A t \in TurnIds : turns[t].phase \in {"free", "done"}

\* the message is one of the error messages of sendQuestion
IsErrorMessage(m) == content[m] \in ErrorMessages

\* C26: Read Aloud on an error message of sendQuestion is rejected by
\* startSpeech: no request for audio is made, nothing is played, and
\* speechState stays as stopSpeech left it.
C26_ErrorsRejected ==
  [][ (op'.name = "start" /\ IsErrorMessage(op'.msg)) =>
        /\ speechState' = EmptySpeech
        /\ \A q \in PendIds : pending'[q].state = pending[q].state
        /\ "Cannot generate audio for error messages" \in toast'
    ]_vars

\* C27: in every state 0 <= speechState.position <= length of
\* speechState.text, whichever backend narrates and however long the audio
\* file is.
C27_PositionInRange ==
  /\ 0 <= speechState.position
  /\ speechState.position <= Len(speechState.text)

\* stopSpeech has run since the suspended startSpeech call q set the loading
\* state: nothing else empties speechState while q waits
StoppedWhileLoading(q) == pending[q].state = "waiting" /\ speechState = EmptySpeech

\* C28: when generateAudio settles for a startSpeech call that stopSpeech
\* has overtaken, no playback starts, no message becomes playing and
\* speechState stays as the stop left it.
C28_StopCancelsLoading ==
  [][ \A q \in PendIds :
        (StoppedWhileLoading(q) /\ op'.name = "resolve" /\ pending'[q].state = "free") =>
          /\ speechState' = speechState
          /\ \A m \in Msgs : ~messages'[m].isPlaying
          /\ \A a \in AudioIds : audios'[a].state = audios[a].state
          /\ \A u \in UttIds : utterances'[u].state # "speaking"
    ]_vars

\* the backend instances that are audible
Audible ==
  {<<"audio", a>> : a \in {x \in AudioIds : audios[x].state = "playing"}}
    \cup {<<"utterance", u>> : u \in {x \in UttIds : utterances[x].state = "speaking"}}

\* C29: at most one backend instance is audible at any time: never two audio
\* elements, never an audio element together with an utterance.
C29_OneAudible == Cardinality(Audible) <= 1

\* C30: while speechState is loading it tracks a message and is not paused,
\* and a loading speechState is followed by one that is not loading, whatever
\* the provider chain answers.
C30_LoadingEnds ==
  /\ [](speechState.isLoading => (speechState.messageId # NoMsg /\ ~speechState.isPaused))
  /\ speechState.isLoading ~> ~speechState.isLoading

\* the request has settled with every remote provider failing and platform
\* synthesis speaks the message, no longer loading
C30_Witness ==
  /\ op.name = "resolve"
  /\ ttsLog.remote # "ok"
  /\ ~speechState.isLoading
  /\ speechState.messageId = op.msg
  /\ messages[op.msg].isPlaying

====
